---- MODULE Spec2Model ----
(***************************************************************************)
(* VirtuFit: the image-to-3D generation relay handlers.                    *)
(*                                                                         *)
(* Five route handlers forward an image to a provider and relay the result:*)
(*   TripoBlocking   src/src/app/api/meshy-3d/route.ts  lines 8-150        *)
(*   MeshyBlocking   src/src/app/api/meshy-3d/route.ts  lines 158-302      *)
(*   TripoResumable  src/src/app/api/products.ts        lines 126-353      *)
(*   MeshyForm       src/unnamed/part_002               lines 24-166       *)
(*   MeshySingle     src/unnamed/part_004               lines 1-35         *)
(* A deployment serves one of them; the provider holds the tasks.          *)
(*                                                                         *)
(* JavaScript values are records [t, s, n]; a string is the sequence of    *)
(* its lexical tokens (s), so that startsWith, split and the regular       *)
(* expression of dataURLtoBuffer are computed on the text, not assumed.    *)
(***************************************************************************)
EXTENDS Integers, Sequences, FiniteSets, TLC

VARIABLES
    handler,    \* the route handler this deployment serves
    apiKey,     \* process.env.<PROVIDER>_API_KEY
    task,       \* the provider's tasks: task id -> [status, model, errmsg]
    pc,         \* position of the running invocation
    req,        \* the request being served
    loc,        \* the invocation's local variables
    calls,      \* outbound calls made by the running invocation, per kind
    lastResp,   \* the provider response received last by the invocation
    response,   \* the response the invocation returned (status 0: none yet)
    clock,      \* Date.now(), relative to the arrival of the request
    seen,       \* the first terminal outcome a resume poll returned for the task followed
    inv,        \* two invocations of the handler running at once: number -> its variables
    page,       \* page.tsx: the avatar state, sessionStorage and the generations in flight
    chat,       \* page.tsx: the chat state and the sends in flight
    favs        \* page.tsx: useFavorites, its renders and localStorage

\* the state outside the single invocation
beside == <<inv, page, chat, favs>>

vars == <<handler, apiKey, task, pc, req, loc, calls, lastResp, response, clock, seen, beside>>

-----------------------------------------------------------------------------
(* Bounds *)

\* tasks the provider keeps at a time; with that many it refuses to create more
MaxTasks == 2

\* polls a blocking loop makes while two invocations run at once
MaxConcPolls == 2

\* generations of the page that can be in flight at once
MaxGens == 2

\* chat messages sent
MaxSends == 2

\* chunks of one streamed chat reply
MaxChunks == 2

\* calls of addFavorite and removeFavorite
MaxFavoriteCalls == 3

-----------------------------------------------------------------------------
(* JavaScript values *)

Undefined == [t |-> "undefined", s |-> <<>>, n |-> 0]
Null == [t |-> "null", s |-> <<>>, n |-> 0]
Str(toks) == [t |-> "string", s |-> toks, n |-> 0]
Num(k) == [t |-> "number", s |-> <<>>, n |-> k]

\* JavaScript truthiness: !v is ~Truthy(v)
Truthy(v) ==
    CASE v.t = "string" -> v.s # <<>>
      [] v.t = "number" -> v.n # 0
      [] v.t \in {"object", "file"} -> TRUE
      [] OTHER -> FALSE

\* a || b
OrElse(a, b) == IF Truthy(a) THEN a ELSE b

\* String.prototype.startsWith
StartsWith(s, prefix) ==
    /\ Len(s) >= Len(prefix)
    /\ SubSeq(s, 1, Len(prefix)) = prefix

\* index of the first occurrence of tok in s at or after position from; 0 if none
RECURSIVE IndexOf(_, _, _)
IndexOf(s, tok, from) ==
    IF from > Len(s) THEN 0
    ELSE IF s[from] = tok THEN from
    ELSE IndexOf(s, tok, from + 1)

\* String.prototype.trim: drop leading and trailing white space
RECURSIVE TrimLeft(_)
TrimLeft(s) == IF s # <<>> /\ Head(s) = " " THEN TrimLeft(Tail(s)) ELSE s

RECURSIVE TrimRight(_)
TrimRight(s) ==
    IF s # <<>> /\ s[Len(s)] = " " THEN TrimRight(SubSeq(s, 1, Len(s) - 1)) ELSE s

Trim(s) == TrimRight(TrimLeft(s))

\* s.split(sep)[0] and s.split(sep)[1] (Undefined when there is no separator)
SplitFirst(s, sep) ==
    LET i == IndexOf(s, sep, 1) IN IF i = 0 THEN s ELSE SubSeq(s, 1, i - 1)

SplitSecond(s, sep) ==
    LET i == IndexOf(s, sep, 1) IN
    IF i = 0 THEN Undefined
    ELSE LET j == IndexOf(s, sep, i + 1) IN
         Str(SubSeq(s, i + 1, IF j = 0 THEN Len(s) ELSE j - 1))

\* the base64 payloads of the requests: token -> number of base64 characters
Base64Chars(tok) ==
    CASE tok = "QUJD" -> 4
      [] tok = "<136536 base64 chars>" -> 136536
      [] tok = "<136534 base64 chars>" -> 136534
      [] OTHER -> 0

RECURSIVE SumChars(_)
SumChars(s) == IF s = <<>> THEN 0 ELSE Base64Chars(Head(s)) + SumChars(Tail(s))

\* Buffer.from(text, 'base64').length: three bytes for every four characters
Base64DecodedLength(s) == (3 * SumChars(s)) \div 4

-----------------------------------------------------------------------------
(* Program constants *)

\* const pollingInterval = 3000
pollingInterval == 3000

\* const pollingTimeout = 120000
pollingTimeout == 120000

\* buffer.length > 100 * 1024
StsThreshold == 100 * 1024

Handlers == {"TripoBlocking", "MeshyBlocking", "TripoResumable", "MeshyForm", "MeshySingle"}

TripoHandlers == {"TripoBlocking", "TripoResumable"}

\* handlers that read a JSON body; the others read multipart form data
JsonHandlers == {"TripoBlocking", "MeshyBlocking", "TripoResumable"}

\* handlers with a blocking poll loop
BlockingHandlers == {"TripoBlocking", "MeshyBlocking", "MeshyForm"}

\* ['failed', 'cancelled', 'unknown', 'banned', 'expired']
TripoFailureStatuses == {"failed", "cancelled", "unknown", "banned", "expired"}

\* taskData.status === 'FAILED' || taskData.status === 'CANCELED'
MeshyFailureStatuses == {"FAILED", "CANCELED"}

\* the codes of TRIPO_ERROR_MAP
TripoMappedCodes == {1002, 2000, 2001, 2002, 2003, 2004, 2008, 2010, 2015}

TRIPO_ERROR_MAP(code) ==
    CASE code = 1002 ->
            [message |-> Str(<<"Authentication failed. Your API key is missing, invalid, or you have no API credits.">>),
             suggestion |-> Str(<<"Check your API key and ensure you have sufficient API credits (not web credits).">>)]
      [] code = 2000 ->
            [message |-> Str(<<"You have exceeded the generation rate limit.">>),
             suggestion |-> Str(<<"Please retry later. Consider implementing exponential backoff.">>)]
      [] code = 2001 ->
            [message |-> Str(<<"Task not found.">>),
             suggestion |-> Str(<<"Check if you passed the correct task id.">>)]
      [] code = 2002 ->
            [message |-> Str(<<"The task type is unsupported.">>),
             suggestion |-> Str(<<"Check if you passed the correct task type.">>)]
      [] code = 2003 ->
            [message |-> Str(<<"The input file is empty.">>),
             suggestion |-> Str(<<"Check if you passed file, or it may be rejected by the firewall.">>)]
      [] code = 2004 ->
            [message |-> Str(<<"The file type is unsupported.">>),
             suggestion |-> Str(<<"Check if the file you input is supported.">>)]
      [] code = 2008 ->
            [message |-> Str(<<"Input violates content policy.">>),
             suggestion |-> Str(<<"Modify your input and retry.">>)]
      [] code = 2010 ->
            [message |-> Str(<<"You need more credits to start a new task.">>),
             suggestion |-> Str(<<"Review your usage at Billing and purchase more API credits.">>)]
      [] code = 2015 ->
            [message |-> Str(<<"The version has been deprecated.">>),
             suggestion |-> Str(<<"Try a higher model version.">>)]
      [] OTHER -> [message |-> Undefined, suggestion |-> Undefined]

-----------------------------------------------------------------------------
(* Requests *)

DataImagePrefix == <<"data", ":", "image", "/">>

ValidDataUrl == <<"data", ":", "image", "/", "png", ";", "base64", ",", "QUJD">>
EmptyPayloadUrl == <<"data", ":", "image", "/", "png", ";", "base64", ",">>
TextPlainUrl == <<"data", ":", "text", "/", "plain", ";", "base64", ",", "QUJD">>
LargeDataUrl == <<"data", ":", "image", "/", "png", ";", "base64", ",", "<136536 base64 chars>">>
\* a payload of exactly 100 * 1024 bytes
ThresholdDataUrl == <<"data", ":", "image", "/", "png", ";", "base64", ",", "<136534 base64 chars>">>
NoCommaUrl == <<"data", ":", "image", "/", "png", ";", "base64">>
NoSemicolonUrl == <<"data", ":", "image", "/", "png", ",", "QUJD">>
HttpsUrl == <<"https", ":", "//", "host", "/", "img.png">>
FtpUrl == <<"ftp", ":", "//", "host", "/", "img.png">>
PlainText == <<"hello">>

ImageUrlTexts ==
    {ValidDataUrl, EmptyPayloadUrl, TextPlainUrl, LargeDataUrl, ThresholdDataUrl, NoCommaUrl,
     NoSemicolonUrl, HttpsUrl, FtpUrl, PlainText}

ImageUrlValues == {Undefined, Num(42), Str(<<>>)} \cup {Str(u) : u \in ImageUrlTexts}

TaskNames == <<"task-1", "task-2", "task-3", "task-4">>

\* the task ids the provider hands out
TaskIds == {TaskNames[i] : i \in 1..MaxTasks}

\* task ids a caller may send: the provider's, and one the provider never issued
RequestTaskIds == TaskIds \cup {"no-such-task"}

\* a picked image file, as the form-data handlers receive it
ImageFile == [t |-> "file", s |-> ValidDataUrl, n |-> 0]

JsonBody(image_url, taskId) ==
    [kind |-> "json", image_url |-> image_url, taskId |-> taskId, file |-> Undefined]

FormBody(file) ==
    [kind |-> "form", image_url |-> Undefined, taskId |-> Undefined, file |-> file]

\* a body that is neither JSON nor form data
TextBody == [kind |-> "text", image_url |-> Undefined, taskId |-> Undefined, file |-> Undefined]

NoRequest == [kind |-> "none", image_url |-> Undefined, taskId |-> Undefined, file |-> Undefined]

Requests ==
    {TextBody}
    \cup {JsonBody(u, Undefined) : u \in ImageUrlValues}
    \cup {JsonBody(Undefined, Str(<<id>>)) : id \in RequestTaskIds}
    \cup {JsonBody(Str(ValidDataUrl), Str(<<TaskNames[1]>>))}
    \cup {FormBody(f) : f \in {Undefined, Str(<<"file">>), ImageFile}}

\* the values of the API key environment variable
ApiKeys == {Undefined, Str(<<>>), Str(<<" ", " ">>), Str(<<"key">>)}

-----------------------------------------------------------------------------
(* Responses of the handlers *)

NoBody ==
    [modelUrl |-> Undefined, error |-> Undefined, suggestion |-> Undefined,
     traceId |-> Undefined, taskId |-> Undefined, code |-> Undefined,
     status |-> Undefined]

NoResponse == [status |-> 0, body |-> NoBody]

\* NextResponse.json(body, { status })
Json(body, status) == [status |-> status, body |-> body]

\* NextResponse.json({ error }, { status })
ErrorJson(msg, status) == Json([NoBody EXCEPT !.error = Str(msg)], status)

\* the catch block answering 400 for 500
CaughtError_Status400(msg) == ErrorJson(<<"Internal server error: ", msg>>, 400)

\* the catch block: `Internal server error: ${errorMessage}`, status 500
CaughtError(msg) == ErrorJson(<<"Internal server error: ", msg>>, 500)

\* dataURLtoBuffer: mime from /:(.*?);/ on the text before the first comma, the
\* buffer decoded from the text after it. threw: the Error it throws, <<>> if none.
dataURLtoBuffer(dataurl) ==
    LET head == SplitFirst(dataurl, ",")
        rest == SplitSecond(dataurl, ",")
        colon == IndexOf(head, ":", 1)
        semi == IF colon = 0 THEN 0 ELSE IndexOf(head, ";", colon + 1)
    IN  IF semi = 0 THEN [threw |-> <<"Invalid data URL">>, mime |-> <<>>, length |-> 0]
        ELSE IF rest.t = "undefined"
        THEN [threw |-> <<"The first argument must be of type string">>,
              mime |-> SubSeq(head, colon + 1, semi - 1), length |-> 0]
        ELSE [threw |-> <<>>, mime |-> SubSeq(head, colon + 1, semi - 1),
              length |-> Base64DecodedLength(rest.s)]

-----------------------------------------------------------------------------
(* The provider: its tasks and the responses it can give *)

NoTask == [status |-> "none", model |-> Undefined, errmsg |-> Undefined]

ModelUrl == Str(<<"https", ":", "//", "x", "/", "m.glb">>)

TripoInProgress == {"queued", "running"}
MeshyInProgress == {"PENDING", "IN_PROGRESS"}

IsTripo(h) == h \in TripoHandlers

SuccessStatus(h) == IF IsTripo(h) THEN "success" ELSE "SUCCEEDED"

FailureStatuses(h) == IF IsTripo(h) THEN TripoFailureStatuses ELSE MeshyFailureStatuses

InProgress(h) == IF IsTripo(h) THEN TripoInProgress ELSE MeshyInProgress

\* the provider's terminal statuses, as the handlers know them
Terminal(h) == {SuccessStatus(h)} \cup FailureStatuses(h)

\* the task a create-task call starts
NewTask(h) == [NoTask EXCEPT !.status = IF IsTripo(h) THEN "queued" ELSE "PENDING"]

\* the states a task in progress can move to: a terminal task never changes
NextTaskStates(h, cur) ==
    IF cur.status \notin InProgress(h) THEN {}
    ELSE (IF cur.status = "queued" THEN {[cur EXCEPT !.status = "running"]}
          ELSE IF cur.status = "PENDING" THEN {[cur EXCEPT !.status = "IN_PROGRESS"]}
          ELSE {})
         \cup {[cur EXCEPT !.status = SuccessStatus(h), !.model = m] :
                    m \in {ModelUrl, Undefined, Str(<<>>)}}
         \cup (IF IsTripo(h)
               THEN {[cur EXCEPT !.status = f] : f \in TripoFailureStatuses}
               ELSE {[cur EXCEPT !.status = "FAILED", !.errmsg = e] :
                         e \in {Undefined, Str(<<"provider task error">>)}}
                    \cup {[cur EXCEPT !.status = "CANCELED"]})

\* a response of the provider, as the handler reads it
BaseResp ==
    [kind |-> "json", threw |-> <<>>, ok |-> TRUE, httpStatus |-> 200,
     code |-> Num(0), message |-> Undefined, suggestion |-> Undefined,
     traceId |-> Null, hasData |-> TRUE, status |-> Undefined, model |-> Undefined,
     url |-> Undefined, image_token |-> Undefined, task_id |-> Undefined,
     errmsg |-> Undefined]

NoResp == [BaseResp EXCEPT !.kind = "none"]

\* fetch rejects, or the body is not JSON: the await throws
Throws ==
    {[BaseResp EXCEPT !.kind = "throw", !.threw = <<"fetch failed">>],
     [BaseResp EXCEPT !.kind = "throw", !.threw = <<"Unexpected token < in JSON">>]}

\* the X-Tripo-Trace-ID header of a response of the given step: present or absent
Traces(step) == {Null, Str(<<"trace-", step>>)}

WithTrace(rs, step) == {[r EXCEPT !.traceId = tr] : r \in rs, tr \in Traces(step)}

TripoReject(code, message, suggestion) ==
    [BaseResp EXCEPT !.code = Num(code), !.message = message,
                     !.suggestion = suggestion, !.hasData = FALSE]

\* rejections Tripo can answer any call with: a code of the table, and a code outside it
TripoRejections ==
    {TripoReject(1002, Str(<<"raw 1002">>), Undefined),
     TripoReject(2000, Str(<<"raw 2000">>), Str(<<"raw suggestion">>)),
     TripoReject(9999, Str(<<"raw 9999">>), Str(<<"raw suggestion">>)),
     TripoReject(9999, Undefined, Undefined)}

\* code 0 without a data field
TripoNoData == [BaseResp EXCEPT !.hasData = FALSE]

\* a non-OK HTTP answer of Meshy, with a JSON body (message) or a text body
MeshyRejections ==
    {[BaseResp EXCEPT !.ok = FALSE, !.httpStatus = st, !.message = m, !.kind = k,
                      !.code = Undefined, !.hasData = FALSE] :
        st \in {402, 500}, m \in {Undefined, Str(<<"raw meshy message">>)},
        k \in {"json", "text"}}

\* the least task id not yet handed out; "" when the credit is used up
FreeTaskId(tasks) ==
    LET free == {i \in 1..MaxTasks : tasks[TaskNames[i]].status = "none"} IN
    IF free = {} THEN ""
    ELSE TaskNames[CHOOSE i \in free : \A j \in free : i <= j]

\* POST /upload
UploadResponses ==
    Throws \cup WithTrace(TripoRejections \cup {TripoNoData}
        \cup {[BaseResp EXCEPT !.image_token = tok] :
                tok \in {Str(<<"image-token">>), Undefined}}, "upload")

\* POST /upload/sts/token
StsResponses ==
    Throws \cup WithTrace(TripoRejections \cup {TripoNoData, BaseResp}, "sts")

\* POST /task and POST /image-to-3d: with credit left the provider may create the
\* task (the response names it, or fails to); without, Tripo answers 2010
CreateResponses(h, tasks) ==
    LET id == FreeTaskId(tasks)
        created == IF id = "" THEN {} ELSE {[BaseResp EXCEPT !.task_id = Str(<<id>>)]}
    IN  IF IsTripo(h)
        THEN Throws \cup WithTrace(TripoRejections \cup {TripoNoData} \cup created
                \cup {TripoReject(2010, Str(<<"raw 2010">>), Undefined)}
                \cup {[BaseResp EXCEPT !.task_id = Undefined]}, "create")
        ELSE Throws \cup MeshyRejections \cup created
                \cup {[BaseResp EXCEPT !.task_id = Undefined],
                      [BaseResp EXCEPT !.kind = "text"]}

\* the tasks after the provider answered a create-task call with resp
TasksAfterCreate(h, tasks, resp) ==
    IF resp.kind = "json" /\ resp.ok /\ Truthy(resp.task_id)
    THEN [tasks EXCEPT ![resp.task_id.s[1]] = NewTask(h)]
    ELSE tasks

\* what the provider knows of task id (a string the caller chose)
Lookup(tasks, id) == IF id \in DOMAIN tasks THEN tasks[id] ELSE NoTask

\* a status string outside the lists of the handlers
UnlistedStatus == Str(<<"paused">>)

\* GET /task/{id} and GET /image-to-3d/{id}: the task as it is now; a task in
\* progress may be reported without a status or with a status outside the lists
PollResponses(h, tasks, id) ==
    LET t == Lookup(tasks, id)
        data == [BaseResp EXCEPT !.status = Str(<<t.status>>), !.model = t.model,
                                 !.errmsg = t.errmsg]
        answers == IF t.status = "none" THEN {}
                   ELSE IF t.status \in InProgress(h)
                   THEN {data, [data EXCEPT !.status = Undefined],
                         [data EXCEPT !.status = UnlistedStatus]}
                   ELSE {data}
    IN  IF IsTripo(h)
        THEN Throws \cup WithTrace(TripoRejections \cup {TripoNoData} \cup answers
                \cup (IF t.status = "none"
                      THEN {TripoReject(2001, Str(<<"raw 2001">>), Undefined)}
                      ELSE {}), "poll")
        ELSE Throws \cup MeshyRejections \cup answers
                \cup {[BaseResp EXCEPT !.kind = "text"]}

-----------------------------------------------------------------------------
(* The handlers, step by step. Each operator is the code between two awaits  *)
(* and yields the position reached, the response returned (if any) and the   *)
(* task id held.                                                             *)

Goto(label) == [pc |-> label, response |-> NoResponse, taskId |-> Undefined]

Return(resp) == [pc |-> "done", response |-> resp, taskId |-> Undefined]

\* the API key check that opens every handler
ApiKeyMissing(h, key) ==
    IF h = "MeshySingle" THEN ~Truthy(key)
    ELSE ~Truthy(key) \/ key.t # "string" \/ Trim(key.s) = <<>>

ConfigError(h) ==
    CASE h \in TripoHandlers ->
            ErrorJson(<<"Server configuration error: Missing Tripo API key">>, 500)
      [] h = "MeshySingle" -> ErrorJson(<<"Missing Meshy API key">>, 500)
      [] OTHER -> ErrorJson(<<"Server configuration error: Missing Meshy API key">>, 500)

\* !image_url || typeof image_url !== 'string' || !image_url.startsWith('data:image/')
InvalidDataImage(image_url) ==
    \/ ~Truthy(image_url)
    \/ image_url.t # "string"
    \/ ~StartsWith(image_url.s, DataImagePrefix)

\* image_url.startsWith('http://') || image_url.startsWith('https://')
isDirectUrl(image_url) ==
    \/ StartsWith(image_url.s, <<"http", ":", "//">>)
    \/ StartsWith(image_url.s, <<"https", ":", "//">>)

\* TripoBlocking, from the body to the first outbound call
TripoBlockingEntry(r) ==
    IF r.kind # "json" THEN Return(CaughtError(<<"Unexpected token in JSON">>))
    ELSE IF InvalidDataImage(r.image_url)
    THEN Return(ErrorJson(<<"Invalid image data provided.">>, 400))
    ELSE LET d == dataURLtoBuffer(r.image_url.s) IN
         IF d.threw # <<>> THEN Return(CaughtError(d.threw)) ELSE Goto("upload")

\* MeshyBlocking, from the body to the first outbound call
MeshyBlockingEntry(r) ==
    IF r.kind # "json" THEN Return(CaughtError(<<"Unexpected token in JSON">>))
    ELSE IF InvalidDataImage(r.image_url)
    THEN Return(ErrorJson(<<"Invalid image data provided.">>, 400))
    ELSE Goto("create")

\* the threshold test with >= for >
UseSts_AtThreshold(length) == length >= StsThreshold

\* if (buffer.length > 100 * 1024): the STS upload path
UseSts(length) == length > StsThreshold

\* TripoResumableEntry looking at image_url before taskId
TripoResumableEntry_SubmitFirst(r) ==
    IF r.kind # "json" THEN Return(CaughtError(<<"Unexpected token in JSON">>))
    ELSE IF ~Truthy(r.image_url) \/ r.image_url.t # "string"
    THEN IF Truthy(r.taskId) THEN [Goto("resume") EXCEPT !.taskId = r.taskId]
         ELSE Return(ErrorJson(<<"Missing or invalid image_url.">>, 400))
    ELSE IF isDirectUrl(r.image_url) THEN Goto("create")
    ELSE LET d == dataURLtoBuffer(r.image_url.s) IN
         IF d.threw # <<>> THEN Return(CaughtError(d.threw))
         ELSE IF UseSts(d.length) THEN Goto("sts")
         ELSE Goto("upload")

\* TripoResumable, from the body to the first outbound call
TripoResumableEntry(r) ==
    IF r.kind # "json" THEN Return(CaughtError(<<"Unexpected token in JSON">>))
    ELSE IF Truthy(r.taskId) THEN [Goto("resume") EXCEPT !.taskId = r.taskId]
    ELSE IF ~Truthy(r.image_url) \/ r.image_url.t # "string"
    THEN Return(ErrorJson(<<"Missing or invalid image_url.">>, 400))
    ELSE IF isDirectUrl(r.image_url) THEN Goto("create")
    ELSE LET d == dataURLtoBuffer(r.image_url.s) IN
         IF d.threw # <<>> THEN Return(CaughtError(d.threw))
         ELSE IF UseSts(d.length) THEN Goto("sts")
         ELSE Goto("upload")

\* MeshyForm, from the form data to fileToDataUri
MeshyFormEntry(r) ==
    IF r.kind # "form" THEN Return(CaughtError(<<"Failed to parse body as FormData">>))
    ELSE IF ~Truthy(r.file) \/ r.file.t = "string"
    THEN Return(ErrorJson(<<"No file uploaded">>, 400))
    ELSE Goto("convert")

\* MeshySingle, from the form data to the one outbound call
MeshySingleEntry(r) ==
    IF r.kind # "form" THEN Return(ErrorJson(<<"Failed to connect to Meshy API">>, 500))
    ELSE IF ~Truthy(r.file) \/ r.file.t = "string"
    THEN Return(ErrorJson(<<"No file uploaded">>, 400))
    ELSE Goto("single")

\* POST: the API key check, then the handler's own entry
Entry(h, key, r) ==
    IF ApiKeyMissing(h, key) THEN Return(ConfigError(h))
    ELSE CASE h = "TripoBlocking" -> TripoBlockingEntry(r)
           [] h = "MeshyBlocking" -> MeshyBlockingEntry(r)
           [] h = "TripoResumable" -> TripoResumableEntry(r)
           [] h = "MeshyForm" -> MeshyFormEntry(r)
           [] OTHER -> MeshySingleEntry(r)

\* tripoErrorResponse without the fallback to the provider's message
tripoErrorResponse_NoRawMessage(r, traceId) ==
    LET mapped == IF r.code.t = "number" THEN TRIPO_ERROR_MAP(r.code.n)
                  ELSE TRIPO_ERROR_MAP(0)
    IN  Json([NoBody EXCEPT
                !.error = OrElse(mapped.message, Str(<<"Tripo API error">>)),
                !.suggestion = OrElse(mapped.suggestion, r.suggestion),
                !.traceId = traceId,
                !.code = r.code], 500)

\* tripoErrorResponse(tripoJson, traceId)
tripoErrorResponse(r, traceId) ==
    LET mapped == IF r.code.t = "number" THEN TRIPO_ERROR_MAP(r.code.n)
                  ELSE TRIPO_ERROR_MAP(0)
    IN  Json([NoBody EXCEPT
                !.error = OrElse(OrElse(mapped.message, r.message), Str(<<"Tripo API error">>)),
                !.suggestion = OrElse(mapped.suggestion, r.suggestion),
                !.traceId = traceId,
                !.code = r.code], 500)

\* TripoBlockingError without the trace id
TripoBlockingError_NoTrace(r, fallback) ==
    Json([NoBody EXCEPT !.error = OrElse(r.message, Str(<<fallback>>)),
                        !.suggestion = r.suggestion], 500)

\* the error response of TripoBlocking for a provider rejection
TripoBlockingError(r, fallback) ==
    Json([NoBody EXCEPT !.error = OrElse(r.message, Str(<<fallback>>)),
                        !.suggestion = r.suggestion,
                        !.traceId = r.traceId], 500)

\* reading a field of the missing data object
DataTypeError == CaughtError(<<"Cannot read properties of undefined">>)

\* UploadOutcome calling /upload again after a rejection
UploadOutcome_RetryOnRejection(h, r) ==
    IF r.kind = "throw" THEN Return(CaughtError(r.threw))
    ELSE IF r.code # Num(0) THEN Goto("upload")
    ELSE IF ~r.hasData THEN Return(DataTypeError)
    ELSE IF ~Truthy(r.image_token)
    THEN Return(Json([NoBody EXCEPT
                        !.error = Str(<<"No image_token returned from Tripo upload">>),
                        !.traceId = r.traceId], 500))
    ELSE Goto("create")

\* UploadOutcome going on to create-task without a look at image_token
UploadOutcome_NoTokenTest(h, r) ==
    IF r.kind = "throw" THEN Return(CaughtError(r.threw))
    ELSE IF r.code # Num(0)
    THEN Return(IF h = "TripoBlocking" THEN TripoBlockingError(r, "Tripo upload failed")
                ELSE tripoErrorResponse(r, OrElse(r.traceId, Str(<<>>))))
    ELSE IF ~r.hasData THEN Return(DataTypeError)
    ELSE Goto("create")

\* after POST /upload
UploadOutcome(h, r) ==
    IF r.kind = "throw" THEN Return(CaughtError(r.threw))
    ELSE IF r.code # Num(0)
    THEN Return(IF h = "TripoBlocking" THEN TripoBlockingError(r, "Tripo upload failed")
                ELSE tripoErrorResponse(r, OrElse(r.traceId, Str(<<>>))))
    ELSE IF ~r.hasData THEN Return(DataTypeError)
    ELSE IF ~Truthy(r.image_token)
    THEN Return(Json([NoBody EXCEPT
                        !.error = Str(<<"No image_token returned from Tripo upload">>),
                        !.traceId = r.traceId], 500))
    ELSE Goto("create")

\* after POST /upload/sts/token
StsOutcome(r) ==
    IF r.kind = "throw" THEN Return(CaughtError(r.threw))
    ELSE IF r.code # Num(0) THEN Return(tripoErrorResponse(r, OrElse(r.traceId, Str(<<>>))))
    ELSE IF ~r.hasData THEN Return(DataTypeError)
    ELSE Goto("s3put")

\* import('@aws-sdk/client-s3') and s3.send(new PutObjectCommand(...))
S3Results == {"no-sdk", "put-failed", "ok"}

S3Outcome(x) ==
    CASE x = "no-sdk" ->
            Return(Json([NoBody EXCEPT
                !.error = Str(<<"The AWS SDK (@aws-sdk/client-s3) is required">>),
                !.suggestion = Str(<<"Add @aws-sdk/client-s3 to your dependencies">>)], 500))
      [] x = "put-failed" -> Return(CaughtError(<<"PutObject failed">>))
      [] OTHER -> Goto("create")

\* errorDetails of the Meshy handlers for a non-OK answer with a JSON body
MeshyJsonDetails(r, prefix) ==
    <<prefix>> \o (IF Truthy(r.message) THEN r.message.s ELSE <<"{json}">>)

\* the response of a Meshy handler to a non-OK answer; MeshyForm reads the body a
\* second time when it is not JSON, which throws
MeshyRejected(h, r, what, prefix) ==
    IF r.kind = "json"
    THEN Return(ErrorJson(<<what>> \o MeshyJsonDetails(r, prefix), r.httpStatus))
    ELSE IF h = "MeshyForm" THEN Return(CaughtError(<<"Body is unusable">>))
    ELSE Return(ErrorJson(<<what, prefix, "status", " - ", "raw body">>, r.httpStatus))

\* after the create-task call
CreateOutcome(h, r) ==
    IF r.kind = "throw" THEN Return(CaughtError(r.threw))
    ELSE IF IsTripo(h)
    THEN IF r.code # Num(0)
         THEN Return(IF h = "TripoBlocking"
                     THEN TripoBlockingError(r, "Tripo create task failed")
                     ELSE tripoErrorResponse(r, OrElse(r.traceId, Str(<<>>))))
         ELSE IF ~r.hasData THEN Return(DataTypeError)
         ELSE IF ~Truthy(r.task_id)
         THEN Return(Json([NoBody EXCEPT
                        !.error = Str(<<"No task_id returned from Tripo create task">>),
                        !.traceId = r.traceId], 500))
         ELSE IF h = "TripoBlocking" THEN [Goto("loop") EXCEPT !.taskId = r.task_id]
         ELSE Return(Json([NoBody EXCEPT !.status = Str(<<"processing">>),
                                         !.taskId = r.task_id,
                                         !.traceId = r.traceId], 202))
    ELSE IF ~r.ok
         THEN MeshyRejected(h, r, "Failed to create Meshy task: ", "Meshy API failed: ")
         ELSE IF r.kind = "text" THEN Return(CaughtError(<<"Unexpected token in JSON">>))
         ELSE IF ~Truthy(r.task_id)
         THEN Return(ErrorJson(<<"Meshy API did not return a task ID">>, 500))
         ELSE [Goto("loop") EXCEPT !.taskId = r.task_id]

\* the failure test with only 'failed' / 'FAILED' listed
IsFailure_OnlyFailed(h, status) ==
    status = Str(<<IF IsTripo(h) THEN "failed" ELSE "FAILED">>)

\* the failure test that takes every status but the known in-progress ones as failed
IsFailure_NotInProgress(h, status) ==
    ~(status.t = "string" /\ Len(status.s) = 1 /\ status.s[1] \in InProgress(h))

\* status is one of the listed failure statuses
IsFailure(h, status) ==
    status.t = "string" /\ Len(status.s) = 1 /\ status.s[1] \in FailureStatuses(h)

\* TripoSuccess without the test of the URL
TripoSuccess_NoUrlTest(r) ==
    Json([NoBody EXCEPT !.modelUrl = r.model, !.traceId = r.traceId], 200)

\* the success branch of a Tripo poll
TripoSuccess(r) ==
    IF Truthy(r.model)
    THEN Json([NoBody EXCEPT !.modelUrl = r.model, !.traceId = r.traceId], 200)
    ELSE Json([NoBody EXCEPT
                !.error = Str(<<"Tripo task succeeded but no model URL found">>),
                !.traceId = r.traceId], 500)

\* TripoFailed without the status in the message
TripoFailed_NoStatus(r) ==
    Json([NoBody EXCEPT !.error = Str(<<"Tripo task failed">>),
                        !.traceId = r.traceId], 500)

\* TripoFailed with the trace id of the poll in the message
TripoFailed_WithTrace(r) ==
    Json([NoBody EXCEPT
            !.error = Str(<<"Tripo task failed: ">> \o r.status.s
                          \o (IF Truthy(r.traceId) THEN r.traceId.s ELSE <<>>)),
            !.traceId = r.traceId], 500)

\* the failure branch of a Tripo poll: `Tripo task failed: ${status}`
TripoFailed(r) ==
    Json([NoBody EXCEPT !.error = Str(<<"Tripo task failed: ">> \o r.status.s),
                        !.traceId = r.traceId], 500)

\* MeshySuccess answering 201 for 200
MeshySuccess_Status201(r) ==
    IF Truthy(r.model)
    THEN Json([NoBody EXCEPT !.modelUrl = r.model], 201)
    ELSE ErrorJson(<<"Meshy task succeeded but no GLB URL found">>, 500)

\* the success branch of a Meshy poll
MeshySuccess(r) ==
    IF Truthy(r.model)
    THEN Json([NoBody EXCEPT !.modelUrl = r.model], 200)
    ELSE ErrorJson(<<"Meshy task succeeded but no GLB URL found">>, 500)

\* the failure branch of a Meshy poll:
\* `Meshy task failed: ${taskData.task_error?.message || taskData.status}`
MeshyFailed(r) ==
    ErrorJson(<<"Meshy task failed: ">> \o OrElse(r.errmsg, r.status).s, 500)

\* after a poll in a blocking loop: return, or go round the loop again
PollOutcome(h, r) ==
    IF r.kind = "throw" THEN Return(CaughtError(r.threw))
    ELSE IF IsTripo(h)
    THEN IF r.code # Num(0) THEN Return(TripoBlockingError(r, "Tripo polling failed"))
         ELSE IF ~r.hasData THEN Return(DataTypeError)
         ELSE IF r.status = Str(<<"success">>) THEN Return(TripoSuccess(r))
         ELSE IF IsFailure(h, r.status) THEN Return(TripoFailed(r))
         ELSE Goto("loop")
    ELSE IF ~r.ok
         THEN MeshyRejected(h, r, "Failed to get Meshy task status: ",
                            "Meshy API GET task failed: ")
         ELSE IF r.kind = "text" THEN Return(CaughtError(<<"Unexpected token in JSON">>))
         ELSE IF r.status = Str(<<"SUCCEEDED">>) THEN Return(MeshySuccess(r))
         ELSE IF IsFailure(h, r.status) THEN Return(MeshyFailed(r))
         ELSE Goto("loop")

\* ResumeOutcome with a 202 that leaves the task id out
ResumeOutcome_NoTaskId(r, taskId) ==
    IF r.kind = "throw" THEN Return(CaughtError(r.threw))
    ELSE IF r.code # Num(0) THEN Return(tripoErrorResponse(r, OrElse(r.traceId, Str(<<>>))))
    ELSE IF ~r.hasData THEN Return(DataTypeError)
    ELSE IF r.status = Str(<<"success">>) THEN Return(TripoSuccess(r))
    ELSE IF IsFailure("TripoResumable", r.status) THEN Return(TripoFailed(r))
    ELSE Return(Json([NoBody EXCEPT !.status = Str(<<"processing">>),
                                    !.traceId = r.traceId], 202))

\* the resume poll of TripoResumable: always returns
ResumeOutcome(r, taskId) ==
    IF r.kind = "throw" THEN Return(CaughtError(r.threw))
    ELSE IF r.code # Num(0) THEN Return(tripoErrorResponse(r, OrElse(r.traceId, Str(<<>>))))
    ELSE IF ~r.hasData THEN Return(DataTypeError)
    ELSE IF r.status = Str(<<"success">>) THEN Return(TripoSuccess(r))
    ELSE IF IsFailure("TripoResumable", r.status) THEN Return(TripoFailed(r))
    ELSE Return(Json([NoBody EXCEPT !.status = Str(<<"processing">>),
                                    !.taskId = taskId,
                                    !.traceId = r.traceId], 202))

\* the loop test with <= for <
WithinBudget_Inclusive(now, startTime) == now - startTime <= pollingTimeout

\* the loop test: Date.now() - startTime < pollingTimeout
WithinBudget(now, startTime) == now - startTime < pollingTimeout

\* the response after the loop
TimedOut(h) ==
    IF h = "TripoBlocking" THEN ErrorJson(<<"Tripo task did not complete in time">>, 500)
    ELSE ErrorJson(<<"Meshy task did not complete in time">>, 500)

\* the data object of a response, as a value
DataObject == [t |-> "object", s |-> <<>>, n |-> 0]

\* MeshySingle after its one call
SingleOutcome(r) ==
    IF r.kind = "throw" THEN Return(ErrorJson(<<"Failed to connect to Meshy API">>, 500))
    ELSE IF ~r.ok THEN Return(ErrorJson(<<"raw body">>, r.httpStatus))
    ELSE IF r.kind = "text" THEN Return(ErrorJson(<<"Failed to connect to Meshy API">>, 500))
    ELSE Return(Json([NoBody EXCEPT
                        !.modelUrl = OrElse(OrElse(r.model, r.url), DataObject)], 200))

\* the answers of POST https://api.meshy.ai/v1/image-to-3d
SingleResponses ==
    Throws \cup MeshyRejections \cup {[BaseResp EXCEPT !.kind = "text"]}
        \cup {[BaseResp EXCEPT !.model = m, !.url = u] :
                m \in {Undefined, ModelUrl}, u \in {Undefined, ModelUrl}}

-----------------------------------------------------------------------------
(* The page at mount *)

\* a generation of the page: where it is, the function that runs it, the answer
\* of the relay it handled
NoAnswer == [kind |-> "none", response |-> NoResponse]

IdleGeneration == [pc |-> "idle", by |-> "none", answer |-> NoAnswer]

Gens == 1..MaxGens

\* the useState initial values, with an empty sessionStorage
PageAtMount ==
    [avatarModelUrl |-> Null, modelUrl |-> Null, meshyLoading |-> FALSE,
     meshyError |-> Null, image |-> Null, preview |-> FALSE,
     sessionItem |-> Null, gen |-> [g \in Gens |-> IdleGeneration]]

Sends == 1..MaxSends

IdleSend == [pc |-> "idle", reply |-> <<>>, chunks |-> 0]

\* an entry of chatHistory; by: the send that appended it (0: the initial state),
\* writer: the send that wrote its message last
Entry0(sender, message, s) ==
    [sender |-> sender, message |-> message, by |-> s, writer |-> s]

Greeting == Entry0("bot", <<"Hi! I'm your AI stylist.">>, 0)

ChatAtMount ==
    [chatInput |-> <<>>, chatHistory |-> <<Greeting>>, chatLoading |-> FALSE,
     chatError |-> Null, send |-> [s \in Sends |-> IdleSend]]

\* useFavorites at the first render, with an empty localStorage. rendered: the
\* favorites value the callbacks of the current render closed over; applied: the
\* initial list with every call applied in order; calls: the calls made
FavoritesAtMount ==
    [favorites |-> <<>>, rendered |-> <<>>, localStorage |-> Null,
     mounted |-> FALSE, applied |-> <<>>, calls |-> 0]

-----------------------------------------------------------------------------
(* State machine *)

NoCalls == [upload |-> 0, sts |-> 0, s3put |-> 0, create |-> 0, poll |-> 0, single |-> 0]

NoLocals == [taskId |-> Undefined, startTime |-> 0]

\* what a caller sees of a terminal answer: the status and the result or error
Outcome(resp) ==
    [status |-> resp.status, modelUrl |-> resp.body.modelUrl, error |-> resp.body.error]

NotSeen == [id |-> "", outcome |-> Outcome(NoResponse), n |-> 0]

\* a terminal outcome of a resume poll: 200 with modelUrl, or 500 task failed
IsTerminalOutcome(resp) ==
    \/ resp.status = 200 /\ Truthy(resp.body.modelUrl)
    \/ /\ resp.status = 500
       /\ resp.body.error.t = "string"
       /\ StartsWith(resp.body.error.s, <<"Tripo task failed: ">>)

\* seen, after a resume poll of task id returned resp: one task is followed from a
\* terminal outcome on (follow: this one, if none is followed yet), and the polls
\* of it from that outcome on are counted (up to 2)
Remember(sn, id, resp, follow) ==
    IF sn.n = 0
    THEN IF follow /\ IsTerminalOutcome(resp)
         THEN [id |-> id, outcome |-> Outcome(resp), n |-> 1]
         ELSE sn
    ELSE IF sn.id = id THEN [sn EXCEPT !.n = 2]
    ELSE sn

\* the invocations that run at once
Invocations == {1, 2}

\* the variables of an invocation that has not received its request
IdleInvocation ==
    [pc |-> "idle", req |-> NoRequest, loc |-> NoLocals, calls |-> NoCalls,
     lastResp |-> NoResp, response |-> NoResponse, clock |-> 0]

Init ==
    /\ inv = [i \in Invocations |-> IdleInvocation]
    /\ page = PageAtMount
    /\ chat = ChatAtMount
    /\ favs = FavoritesAtMount
    /\ handler \in Handlers
    /\ apiKey \in ApiKeys
    /\ task = [id \in TaskIds |-> NoTask]
    /\ pc = "idle"
    /\ req = NoRequest
    /\ loc = NoLocals
    /\ calls = NoCalls
    /\ lastResp = NoResp
    /\ response = NoResponse
    /\ clock = 0
    /\ seen = NotSeen

\* a step of the invocation: the provider answered r to a call of kind `kind`, and
\* the handler went on to out. The response read in the loop body is out of scope
\* once the loop goes round.
Step(kind, r, out) ==
    /\ calls' = [calls EXCEPT ![kind] = @ + 1]
    /\ lastResp' = IF out.pc = "loop" /\ kind = "poll" THEN NoResp ELSE r
    /\ pc' = out.pc
    /\ response' = out.response

\* a request arrives: the handler runs up to its first outbound call
Receive(r) ==
    /\ pc = "idle"
    /\ LET out == Entry(handler, apiKey, r) IN
        /\ pc' = out.pc
        /\ response' = out.response
        /\ loc' = [NoLocals EXCEPT !.taskId = out.taskId]
    /\ req' = r
    /\ calls' = NoCalls
    /\ lastResp' = NoResp
    /\ clock' = 0
    /\ UNCHANGED <<beside, handler, apiKey, task, seen>>

\* MeshyForm: fileToDataUri uses FileReader, which the server runtime may lack
Convert ==
    /\ pc = "convert"
    /\ \/ pc' = "create" /\ response' = NoResponse
       \/ pc' = "done" /\ response' = ErrorJson(<<"Failed to process uploaded image.">>, 500)
    /\ UNCHANGED <<beside, handler, apiKey, task, req, loc, calls, lastResp, clock, seen>>

Upload ==
    /\ pc = "upload"
    /\ \E r \in UploadResponses : Step("upload", r, UploadOutcome(handler, r))
    /\ UNCHANGED <<beside, handler, apiKey, task, req, loc, clock, seen>>

StsToken ==
    /\ pc = "sts"
    /\ \E r \in StsResponses : Step("sts", r, StsOutcome(r))
    /\ UNCHANGED <<beside, handler, apiKey, task, req, loc, clock, seen>>

S3Put ==
    /\ pc = "s3put"
    /\ \E x \in S3Results :
        LET out == S3Outcome(x) IN
        /\ pc' = out.pc
        /\ response' = out.response
        /\ calls' = [calls EXCEPT !.s3put = IF x = "no-sdk" THEN @ ELSE @ + 1]
        /\ lastResp' = IF x = "put-failed"
                       THEN [BaseResp EXCEPT !.kind = "throw", !.threw = <<"PutObject failed">>]
                       ELSE lastResp
    /\ UNCHANGED <<beside, handler, apiKey, task, req, loc, clock, seen>>

\* create-task; a blocking handler then takes startTime = Date.now()
CreateTask ==
    /\ pc = "create"
    /\ \E r \in CreateResponses(handler, task) :
        LET out == CreateOutcome(handler, r) IN
        /\ Step("create", r, out)
        /\ task' = TasksAfterCreate(handler, task, r)
        /\ loc' = [taskId |-> out.taskId, startTime |-> clock]
    /\ UNCHANGED <<beside, handler, apiKey, req, clock, seen>>

\* a sleep that resolves at once
sleep_NoWait(now, ms) == now

\* the time when await sleep(ms), begun at now, resolves
sleep(now, ms) == now + ms

\* the head of the poll loop: sleep(pollingInterval) while within the budget,
\* the timeout response otherwise
LoopStep ==
    /\ pc = "loop"
    /\ IF WithinBudget(clock, loc.startTime)
       THEN /\ clock' = sleep(clock, pollingInterval)
            /\ pc' = "poll"
            /\ response' = NoResponse
       ELSE /\ clock' = clock
            /\ pc' = "done"
            /\ response' = TimedOut(handler)
    /\ UNCHANGED <<beside, handler, apiKey, task, req, loc, calls, lastResp, seen>>

\* one poll of the blocking loop
Poll ==
    /\ pc = "poll"
    /\ \E r \in PollResponses(handler, task, loc.taskId.s[1]) :
        Step("poll", r, PollOutcome(handler, r))
    /\ UNCHANGED <<beside, handler, apiKey, task, req, loc, clock, seen>>

\* the resume poll of TripoResumable
Resume ==
    /\ pc = "resume"
    /\ \E r \in PollResponses(handler, task, loc.taskId.s[1]) :
        LET out == ResumeOutcome(r, loc.taskId) IN
        /\ Step("poll", r, out)
        /\ \E follow \in BOOLEAN :
            seen' = Remember(seen, loc.taskId.s[1], out.response, follow)
    /\ UNCHANGED <<beside, handler, apiKey, task, req, loc, clock>>

\* the one call of MeshySingle
Single ==
    /\ pc = "single"
    /\ \E r \in SingleResponses : Step("single", r, SingleOutcome(r))
    /\ UNCHANGED <<beside, handler, apiKey, task, req, loc, clock, seen>>

\* the provider's tasks once the invocation has answered: a blocking handler never
\* reveals the task id, so nobody can ask about its task again and the provider's
\* record of it leaves the state
TasksAfterFinish(h, tasks, taskId) ==
    IF h \in BlockingHandlers /\ Truthy(taskId) /\ taskId.s[1] \in DOMAIN tasks
    THEN [tasks EXCEPT ![taskId.s[1]] = NoTask]
    ELSE tasks

\* the response is sent; the next request can arrive
Finish ==
    /\ pc = "done"
    /\ pc' = "idle"
    /\ task' = TasksAfterFinish(handler, task, loc.taskId)
    /\ req' = NoRequest
    /\ loc' = NoLocals
    /\ calls' = NoCalls
    /\ lastResp' = NoResp
    /\ response' = NoResponse
    /\ clock' = 0
    /\ UNCHANGED <<beside, handler, apiKey, seen>>

\* the provider works on a task
ProviderAdvance ==
    /\ \E id \in TaskIds : \E n \in NextTaskStates(handler, task[id]) :
        task' = [task EXCEPT ![id] = n]
    /\ UNCHANGED <<beside, handler, apiKey, pc, req, loc, calls, lastResp, response, clock, seen>>

Next ==
    \/ \E r \in Requests : Receive(r)
    \/ Convert
    \/ Upload
    \/ StsToken
    \/ S3Put
    \/ CreateTask
    \/ LoopStep
    \/ Poll
    \/ Resume
    \/ Single
    \/ Finish
    \/ ProviderAdvance

Spec == Init /\ [][Next]_vars

-----------------------------------------------------------------------------
(* Properties *)

\* the handlers that poll a provider
PollingHandlers == BlockingHandlers \cup {"TripoResumable"}

\* the invocation has returned, and the last thing it did was read a poll response
AnsweredAfterPoll == pc = "done" /\ calls.poll >= 1 /\ lastResp.kind # "none"

\* r is a provider answer that carries the task's data
CarriesData(h, r) ==
    /\ r.kind = "json"
    /\ r.ok
    /\ IsTripo(h) => (r.code = Num(0) /\ r.hasData)

\* r reports the provider's success status
ReportsSuccess(h, r) == CarriesData(h, r) /\ r.status = Str(<<SuccessStatus(h)>>)

\* r reports one of the provider's failure statuses
ReportsFailure(h, r) == CarriesData(h, r) /\ IsFailure(h, r.status)

\* C1: in every handler that polls, a 200 response is returned only at a poll whose
\* provider response reported the success status with a non-empty model URL, which
\* it carries as modelUrl; a poll that reported success without a URL (missing or
\* empty) is answered with 500.
C1_SuccessNeedsUrl ==
    (handler \in PollingHandlers /\ pc = "done") =>
        /\ response.status = 200 =>
              /\ AnsweredAfterPoll
              /\ ReportsSuccess(handler, lastResp)
              /\ Truthy(lastResp.model)
              /\ response.body.modelUrl = lastResp.model
        /\ (AnsweredAfterPoll /\ ReportsSuccess(handler, lastResp) /\ ~Truthy(lastResp.model)) =>
              /\ response.status = 500
              /\ response.body.modelUrl = Undefined

\* C1 witness: a resume poll saw success with an empty URL and answered 500
C1_Witness ==
    /\ handler = "TripoResumable"
    /\ AnsweredAfterPoll
    /\ ReportsSuccess(handler, lastResp)
    /\ lastResp.model = Str(<<>>)
    /\ response.status = 500

\* the invocation returned because the loop test failed: the budget is used up, and
\* every poll it made was answered with a status that is not terminal
BudgetExhausted ==
    /\ handler \in BlockingHandlers
    /\ pc = "done"
    /\ calls.poll >= 1
    /\ lastResp.kind = "none"
    /\ ~WithinBudget(clock, loc.startTime)

\* C2: when the blocking loop uses up its budget with every status seen in
\* progress, the handler returns a 'processing' result that is no error and carries
\* the task id of the task it created.
C2_TimeoutIsProcessing ==
    BudgetExhausted =>
        /\ response.status < 400
        /\ response.body.error = Undefined
        /\ response.body.status = Str(<<"processing">>)
        /\ response.body.taskId = loc.taskId

\* pollingTimeout / pollingInterval
MaxPolls == pollingTimeout \div pollingInterval

\* C3: with every call returning and every sleep advancing the clock by
\* pollingInterval, a blocking loop makes at most 40 polls: the time spent is the
\* number of polls times pollingInterval, the loop can always take its next step,
\* after the 40th poll the loop test fails, and no response exists before the loop
\* is left.
C3_LoopTerminates ==
    handler \in BlockingHandlers =>
        /\ MaxPolls = 40
        /\ calls.poll <= MaxPolls
        /\ pc \in {"loop", "poll"} => response = NoResponse
        /\ pc = "loop" => /\ clock - loc.startTime = calls.poll * pollingInterval
                          /\ ENABLED LoopStep
                          /\ calls.poll = MaxPolls => ~WithinBudget(clock, loc.startTime)
        /\ pc = "poll" => ENABLED Poll
        /\ BudgetExhausted => calls.poll = MaxPolls /\ response # NoResponse

\* C3 witness: the loop was left after 40 polls that all saw the task in progress
C3_Witness == BudgetExhausted /\ calls.poll = 40 /\ response.status = 500

\* the request is a new submit to a handler that reads image_url from a JSON body
JsonSubmit ==
    /\ handler \in JsonHandlers
    /\ req.kind = "json"
    /\ ~(handler = "TripoResumable" /\ Truthy(req.taskId))

\* image_url is missing, not a string, or a string that is neither an http(s) URL
\* nor a data:image/ data URL
InvalidImageUrl(v) ==
    \/ v.t # "string"
    \/ ~(isDirectUrl(v) \/ StartsWith(v.s, DataImagePrefix))

\* C4: a request with an invalid image_url causes no outbound provider call, in
\* every handler that reads image_url.
C4_InvalidInputNoCalls ==
    (pc # "idle" /\ JsonSubmit /\ InvalidImageUrl(req.image_url)) => calls = NoCalls

\* the body cannot be parsed, or image_url is missing, not a string, or a string
\* that is neither a well-formed data URL nor an http(s) URL
Malformed(r) ==
    \/ r.kind # "json"
    \/ r.image_url.t # "string"
    \/ ~isDirectUrl(r.image_url) /\ dataURLtoBuffer(r.image_url.s).threw # <<>>

\* C5: with the API key set, every request rejected for malformed input is answered
\* with status 400.
C5_MalformedIs400 ==
    (/\ pc = "done"
     /\ ~ApiKeyMissing(handler, apiKey)
     /\ handler \in JsonHandlers
     /\ req.kind = "json" => JsonSubmit
     /\ Malformed(req)) => response.status = 400

\* image_url is a data URL whose payload decodes to no bytes, or whose MIME type is
\* not an image type
EmptyOrNotImage(v) ==
    /\ v.t = "string"
    /\ LET d == dataURLtoBuffer(v.s) IN
        /\ d.threw = <<>>
        /\ d.length = 0 \/ ~StartsWith(d.mime, <<"image", "/">>)

\* C6: with the API key set, a submit whose payload is empty or whose MIME type is
\* not an image type is rejected with a validation error (400) before any outbound
\* call.
C6_EmptyOrNotImageRejected ==
    (/\ pc # "idle"
     /\ ~ApiKeyMissing(handler, apiKey)
     /\ JsonSubmit
     /\ EmptyOrNotImage(req.image_url)) =>
        /\ calls = NoCalls
        /\ pc = "done" => response.status = 400

\* the API key is missing, empty or white space only
KeyAbsent(key) == key.t = "undefined" \/ (key.t = "string" /\ Trim(key.s) = <<>>)

\* C7: with the API key missing, empty or white space only, every handler answers
\* any request, valid or not, with 500 and makes no outbound call.
C7_NoKeyIs500 ==
    (pc # "idle" /\ KeyAbsent(apiKey)) =>
        /\ calls = NoCalls
        /\ pc = "done" => response.status = 500

\* tok occurs in the text s
Contains(s, tok) == \E i \in 1..Len(s) : s[i] = tok

\* a poll in a polling handler reported a failure status, and the handler answered
FailureAnswered ==
    /\ handler \in PollingHandlers
    /\ AnsweredAfterPoll
    /\ ReportsFailure(handler, lastResp)

\* C8 as claimed: a poll that reports a terminal failure status is answered with a
\* failure whose error contains that status string.
C8_FailureCarriesStatus ==
    FailureAnswered =>
        /\ response.status >= 400
        /\ response.body.error.t = "string"
        /\ Contains(response.body.error.s, lastResp.status.s[1])

\* C8 as amended: a poll that reports a terminal failure status is answered with
\* 500; the error contains the status string in the Tripo handlers, and in the Meshy
\* handlers it is the provider's task_error.message when that is not empty, the
\* status string otherwise.
C8_FailureDetail ==
    FailureAnswered =>
        /\ response.status = 500
        /\ response.body.error.t = "string"
        /\ IF ~IsTripo(handler) /\ Truthy(lastResp.errmsg)
           THEN response.body.error.s = <<"Meshy task failed: ">> \o lastResp.errmsg.s
           ELSE Contains(response.body.error.s, lastResp.status.s[1])

\* C8 witness: Meshy reported FAILED with a task_error.message
C8_Witness ==
    /\ FailureAnswered
    /\ handler = "MeshyBlocking"
    /\ lastResp.status = Str(<<"FAILED">>)
    /\ Truthy(lastResp.errmsg)
    /\ response.status = 500

\* a resume poll of the task followed has answered, after an earlier resume poll of
\* that task had returned a terminal outcome
LaterPollAnswered ==
    /\ handler = "TripoResumable"
    /\ pc = "done"
    /\ req.kind = "json"
    /\ Truthy(req.taskId)
    /\ seen.n = 2
    /\ seen.id = req.taskId.s[1]

\* C9 as claimed: once a resume poll of a task returned a terminal outcome, every
\* later resume poll of that task returns the same outcome.
C9_SameOutcome == LaterPollAnswered => Outcome(response) = seen.outcome

\* C9 as amended: once a resume poll of a task returned a terminal outcome, every
\* later resume poll of that task which the provider answers with the task's data
\* (code 0) returns the same outcome, whatever polls of other tasks come between.
C9_SameOutcomeWhenAnswered ==
    (LaterPollAnswered /\ CarriesData(handler, lastResp)) =>
        Outcome(response) = seen.outcome

\* C9 witness: a later poll of the task followed returned the model URL again
C9_Witness ==
    /\ LaterPollAnswered
    /\ CarriesData(handler, lastResp)
    /\ response.status = 200
    /\ seen.outcome.status = 200

\* C10: in a blocking loop, the poll made when the task is terminal is the last one:
\* the handler returns at it, and once it has returned it makes no call and changes
\* no response.
C10_TerminalPollReturns ==
    [][/\ (/\ handler \in BlockingHandlers
           /\ pc = "poll"
           /\ calls'.poll = calls.poll + 1
           /\ Lookup(task, loc.taskId.s[1]).status \in Terminal(handler))
          => (pc' = "done" /\ response' # NoResponse)
       /\ (pc = "done" /\ pc' # "idle")
          => (pc' = "done" /\ calls' = calls /\ response' = response)]_vars

\* C10 witness: a loop saw the task in progress, then failed, and returned
C10_Witness ==
    /\ handler \in BlockingHandlers
    /\ FailureAnswered
    /\ calls.poll >= 2

\* C11: in every handler a response carries a modelUrl only if it is a 200 response
\* given after the provider reported the success status: no 202 and no error
\* response carries one, and no 200 with a modelUrl is produced without the
\* provider's answer having reported the task as succeeded.
C11_ModelUrlOnlyOnSuccess ==
    pc = "done" =>
        /\ response.status # 200 => response.body.modelUrl = Undefined
        /\ response.body.modelUrl # Undefined =>
              /\ response.status = 200
              /\ lastResp.kind # "none"
              /\ ReportsSuccess(handler, lastResp)

\* a poll of a polling handler reported success with a model URL, and the handler
\* answered
SuccessAnswered ==
    /\ handler \in PollingHandlers
    /\ AnsweredAfterPoll
    /\ ReportsSuccess(handler, lastResp)
    /\ Truthy(lastResp.model)

\* what the handler of the other provider returns for a success with the same URL
OtherProviderSuccess(h, r) == IF IsTripo(h) THEN MeshySuccess(r) ELSE TripoSuccess(r)

\* a response without its traceId field
WithoutTraceId(resp) == [resp EXCEPT !.body.traceId = Undefined]

\* C12 as claimed: for a success with model URL U the Tripo handlers and the Meshy
\* handlers return identical results: the same status code and the same body fields
\* and values.
C12_SameSuccessResult ==
    SuccessAnswered => response = OtherProviderSuccess(handler, lastResp)

\* C12 as amended: for a success with model URL U the Tripo handlers and the Meshy
\* handlers return the same status code 200, the same modelUrl U and no other field
\* but traceId: the Tripo body has a traceId field (the X-Tripo-Trace-ID header of
\* the poll, null without the header), the Meshy body has none.
C12_SameSuccessButTraceId ==
    SuccessAnswered =>
        /\ WithoutTraceId(response) = WithoutTraceId(OtherProviderSuccess(handler, lastResp))
        /\ response.status = 200
        /\ response.body.modelUrl = lastResp.model
        /\ response.body.traceId = IF IsTripo(handler) THEN lastResp.traceId ELSE Undefined

\* C12 witness: a Tripo poll with a trace id header reported success with a URL
C12_Witness ==
    /\ SuccessAnswered
    /\ handler = "TripoBlocking"
    /\ Truthy(lastResp.traceId)
    /\ response.status = 200

\* the invocation returned on a provider answer whose code is in the error table
MappedRejectionAnswered ==
    /\ handler \in TripoHandlers
    /\ pc = "done"
    /\ lastResp.kind = "json"
    /\ lastResp.code.t = "number"
    /\ lastResp.code.n \in TripoMappedCodes

\* C13: a Tripo answer with a code of the error table, at upload, STS token, create
\* task or poll, is relayed with the table's message and suggestion for that code,
\* not with the provider's raw message; code 1002 gives the authentication message.
C13_MappedCodeGivesTableText ==
    MappedRejectionAnswered =>
        /\ response.body.error = TRIPO_ERROR_MAP(lastResp.code.n).message
        /\ response.body.suggestion = TRIPO_ERROR_MAP(lastResp.code.n).suggestion
        /\ response.body.error # lastResp.message
        /\ lastResp.code.n = 1002 =>
              StartsWith(response.body.error.s, <<"Authentication failed. Your API key is missing, invalid, or you have no API credits.">>)

\* the invocation returned on a Tripo answer with a non-zero code outside the table
UnmappedRejectionAnswered ==
    /\ handler \in TripoHandlers
    /\ pc = "done"
    /\ lastResp.kind = "json"
    /\ lastResp.code.t = "number"
    /\ lastResp.code.n # 0
    /\ lastResp.code.n \notin TripoMappedCodes

\* the fixed texts the Tripo handlers use when the provider gave no message
GenericTexts(h) ==
    IF h = "TripoResumable" THEN {Str(<<"Tripo API error">>)}
    ELSE {Str(<<"Tripo upload failed">>), Str(<<"Tripo create task failed">>),
          Str(<<"Tripo polling failed">>)}

\* C14: a Tripo answer with a non-zero code outside the error table is relayed with
\* the provider's own message and the provider's suggestion; a fixed generic text
\* stands for the message only when the provider gave none.
C14_UnmappedCodeGivesRawText ==
    UnmappedRejectionAnswered =>
        /\ response.body.suggestion = lastResp.suggestion
        /\ IF Truthy(lastResp.message)
           THEN response.body.error = lastResp.message
           ELSE response.body.error \in GenericTexts(handler)

\* C14 witness: the resumable handler relayed a code outside the table with the
\* provider's message and suggestion
C14_Witness ==
    /\ UnmappedRejectionAnswered
    /\ handler = "TripoResumable"
    /\ Truthy(lastResp.message)
    /\ Truthy(lastResp.suggestion)
    /\ response.body.error = lastResp.message
    /\ response.body.code = lastResp.code

\* r is a rejection by the provider: a Tripo answer with a non-zero code, a Meshy
\* answer with a non-OK HTTP status
IsRejection(h, r) ==
    /\ r.kind \in {"json", "text"}
    /\ IF IsTripo(h) THEN r.code # Num(0) ELSE ~r.ok

\* C15: every rejection by the provider, at any step, is answered to the caller
\* with HTTP status 500.
C15_RejectionIs500 ==
    (pc = "done" /\ IsRejection(handler, lastResp)) => response.status = 500

\* the last outbound call raised an exception in the handler: the call rejected,
\* the body read as JSON was not JSON, a field of the missing data object was read,
\* or the object-storage put failed
ExceptionRaised ==
    \/ lastResp.kind = "throw"
    \/ /\ IsTripo(handler)
       /\ lastResp.kind = "json"
       /\ lastResp.code = Num(0)
       /\ ~lastResp.hasData
    \/ /\ ~IsTripo(handler)
       /\ lastResp.kind = "text"
       /\ lastResp.ok \/ handler = "MeshyForm"

\* C16 as claimed: an exception raised by an outbound call or by reading its answer
\* ends the invocation with a 500 response whose error is 'Internal server error:
\* ...', in every handler.
C16_ExceptionIsInternalError ==
    ExceptionRaised =>
        /\ pc = "done"
        /\ response.status = 500
        /\ response.body.error.t = "string"
        /\ StartsWith(response.body.error.s, <<"Internal server error: ">>)

\* the error text of a handler's catch block
IsCatchText(h, error) ==
    /\ error.t = "string"
    /\ IF h = "MeshySingle" THEN error.s = <<"Failed to connect to Meshy API">>
       ELSE StartsWith(error.s, <<"Internal server error: ">>)

\* C16 as amended: an exception raised by an outbound call or by reading its answer
\* is caught at the step where it is raised: the invocation ends there with one
\* response of status 500, whose error is 'Internal server error: <message>' in the
\* handlers with a poll and 'Failed to connect to Meshy API' in the single-call
\* handler, and a returned invocation makes no call and changes no response.
C16_ExceptionCaught ==
    [][/\ ExceptionRaised' =>
            /\ pc' = "done"
            /\ response'.status = 500
            /\ IsCatchText(handler, response'.body.error)
            /\ response'.body.modelUrl = Undefined
       /\ pc = "done" =>
            /\ pc' \in {"done", "idle"}
            /\ \A k \in DOMAIN calls : calls'[k] <= calls[k]
            /\ pc' = "done" => response' = response]_vars

\* C16 witness: the object-storage put failed and the handler answered 500
\* without creating a task
C16_Witness ==
    /\ handler = "TripoResumable"
    /\ ExceptionRaised
    /\ calls.s3put = 1
    /\ calls.create = 0
    /\ response = CaughtError(<<"PutObject failed">>)

\* the calls made once per invocation at most
SingleShotCalls == {"upload", "sts", "s3put", "create", "single"}

\* C17: no step is retried: in one invocation upload, STS token, object-storage put
\* and create task are each called at most once, a rejection by the provider ends
\* the invocation at the call it answers, and no call follows it.
C17_NoRetry ==
    [][/\ \A k \in SingleShotCalls : calls'[k] <= 1
       /\ IsRejection(handler, lastResp') => (pc' = "done" /\ response'.status >= 400)
       /\ IsRejection(handler, lastResp) => \A k \in DOMAIN calls : calls'[k] <= calls[k]]_vars

\* C17 witness: a poll was rejected after one upload and one create-task call
C17_Witness ==
    /\ handler = "TripoBlocking"
    /\ pc = "done"
    /\ IsRejection(handler, lastResp)
    /\ calls.upload = 1
    /\ calls.create = 1
    /\ calls.poll >= 1

\* the request is a new submit of a data URL to the resumable Tripo handler, and
\* the data URL could be decoded
DataUrlSubmit ==
    /\ handler = "TripoResumable"
    /\ pc # "idle"
    /\ ~ApiKeyMissing(handler, apiKey)
    /\ req.kind = "json"
    /\ ~Truthy(req.taskId)
    /\ req.image_url.t = "string"
    /\ req.image_url.s # <<>>
    /\ ~isDirectUrl(req.image_url)
    /\ dataURLtoBuffer(req.image_url.s).threw = <<>>

\* the calls of kind k made so far, given that the first call of the path is of
\* kind k: none while the invocation stands before it, one afterwards
FirstCallMade(k) == calls[k] = IF pc = k THEN 0 ELSE 1

\* C18: for a data-URL submit to the resumable Tripo handler the decoded length L
\* alone selects the upload path: L > 102400 gives exactly one STS-token request and
\* no /upload call, L <= 102400 exactly one /upload call and no STS-token request;
\* a payload of exactly 102400 bytes is uploaded inline.
C18_LengthSelectsPath ==
    DataUrlSubmit =>
        LET L == dataURLtoBuffer(req.image_url.s).length IN
        /\ L > 102400 => (FirstCallMade("sts") /\ calls.upload = 0)
        /\ L <= 102400 => (FirstCallMade("upload") /\ calls.sts = 0 /\ calls.s3put = 0)

\* C18 witness: a payload of exactly 102400 bytes went through /upload and the
\* task was created
C18_Witness ==
    /\ DataUrlSubmit
    /\ dataURLtoBuffer(req.image_url.s).length = 102400
    /\ calls.upload = 1
    /\ calls.sts = 0
    /\ response.status = 202

\* the resumable Tripo handler has returned
ResumableAnswered == handler = "TripoResumable" /\ pc = "done"

\* C19: every 202 response of the resumable Tripo handler has status 'processing'
\* and a non-empty taskId that names the task of the request: the taskId of the
\* request for a resume poll, the task_id of the provider's create-task answer for
\* a new submit; a create-task answer without task_id is answered 500.
C19_ProcessingNamesTask ==
    ResumableAnswered =>
        /\ response.status = 202 =>
              /\ response.body.status = Str(<<"processing">>)
              /\ Truthy(response.body.taskId)
              /\ response.body.error = Undefined
              /\ response.body.modelUrl = Undefined
              /\ IF Truthy(req.taskId)
                 THEN /\ response.body.taskId = req.taskId
                      /\ calls.poll = 1
                      /\ calls.create = 0
                 ELSE /\ response.body.taskId = lastResp.task_id
                      /\ calls.create = 1
                      /\ Lookup(task, response.body.taskId.s[1]).status # "none"
        /\ (calls.create = 1 /\ CarriesData(handler, lastResp) /\ ~Truthy(lastResp.task_id)) =>
              response.status = 500

\* C19 witness: a resume poll of a task in progress was answered 202 with the task
\* id of the request
C19_Witness ==
    /\ ResumableAnswered
    /\ response.status = 202
    /\ Truthy(req.taskId)
    /\ response.body.taskId = req.taskId
    /\ Lookup(task, req.taskId.s[1]).status \in TripoInProgress

\* the request being served by the resumable Tripo handler is a resume request: its
\* body has a task id
ResumeRequest ==
    /\ handler = "TripoResumable"
    /\ ~ApiKeyMissing(handler, apiKey)
    /\ req.kind = "json"
    /\ Truthy(req.taskId)

\* C20: a resume request makes exactly one GET, for the task id of the request, and
\* no upload, STS-token, object-storage or create-task call, with or without an
\* image_url in the body; the poll leaves the provider's tasks and the relay's
\* configuration as they were.
C20_ResumeOnlyPolls ==
    [][/\ ResumeRequest' =>
            /\ pc' \in {"resume", "done"}
            /\ calls' = [NoCalls EXCEPT !.poll = IF pc' = "resume" THEN 0 ELSE 1]
            /\ loc'.taskId = req'.taskId
       /\ (ResumeRequest /\ pc = "resume" /\ pc' # "resume") =>
            /\ pc' = "done"
            /\ response' # NoResponse
            /\ task' = task
            /\ handler' = handler
            /\ apiKey' = apiKey]_vars

\* C20 witness: a request with a task id and an image_url was answered after one
\* poll and no other call
C20_Witness ==
    /\ ResumeRequest
    /\ Truthy(req.image_url)
    /\ pc = "done"
    /\ calls = [NoCalls EXCEPT !.poll = 1]
    /\ response.status \in {200, 202, 500}

-----------------------------------------------------------------------------
(* Two invocations at once. Every variable of a handler is declared inside    *)
(* POST, so each invocation has its own; the invocations meet only in the     *)
(* provider and in process.env.                                               *)

\* the handlers served with two invocations at once
ConcHandlers == {"TripoResumable", "MeshyBlocking"}

\* the requests of invocation i: a resume poll of its own task or a submit
ConcRequests(h, i) ==
    IF h = "TripoResumable"
    THEN {JsonBody(Undefined, Str(<<TaskNames[i]>>)), JsonBody(Str(HttpsUrl), Undefined)}
    ELSE {JsonBody(Str(ValidDataUrl), Undefined)}

\* taskId read from a variable at module level, which the invocation that created
\* its task last has written
TaskIdRead_ModuleLevel(invs, i) ==
    LET other == CHOOSE j \in Invocations : j # i IN
    IF Truthy(invs[other].loc.taskId) THEN invs[other].loc.taskId ELSE invs[i].loc.taskId

\* const taskId, declared in POST: the one of the invocation that reads it
TaskIdRead(invs, i) == invs[i].loc.taskId

\* an invocation after an outbound call of kind `kind` answered r
InvStep(s, kind, r, out) ==
    [s EXCEPT !.calls[kind] = @ + 1,
              !.lastResp = IF out.pc = "loop" /\ kind = "poll" THEN NoResp ELSE r,
              !.pc = out.pc,
              !.response = out.response]

AfterReceive(h, key, r) ==
    LET out == Entry(h, key, r) IN
    [IdleInvocation EXCEPT !.pc = out.pc, !.response = out.response,
                           !.loc.taskId = out.taskId, !.req = r]

AfterCreate(h, s, r) ==
    LET out == CreateOutcome(h, r) IN
    [InvStep(s, "create", r, out) EXCEPT
        !.loc = [taskId |-> out.taskId, startTime |-> s.clock]]

AfterLoop(h, s) ==
    IF WithinBudget(s.clock, s.loc.startTime)
    THEN [s EXCEPT !.clock = sleep(@, pollingInterval), !.pc = "poll"]
    ELSE [s EXCEPT !.pc = "done", !.response = TimedOut(h)]

AfterPoll(h, s, r) == InvStep(s, "poll", r, PollOutcome(h, r))

AfterResume(s, r) == InvStep(s, "poll", r, ResumeOutcome(r, s.loc.taskId))

\* the tasks the provider holds when the invocations start: none, or one per
\* invocation from earlier submits
ConcInit ==
    /\ handler \in ConcHandlers
    /\ apiKey \in ApiKeys
    /\ task \in {[id \in TaskIds |-> NoTask]}
                \cup (IF handler = "TripoResumable"
                      THEN {[id \in TaskIds |->
                                IF id \in {TaskNames[i] : i \in Invocations}
                                THEN NewTask(handler) ELSE NoTask]}
                      ELSE {})
    /\ inv = [i \in Invocations |-> IdleInvocation]
    /\ pc = "idle"
    /\ req = NoRequest
    /\ loc = NoLocals
    /\ calls = NoCalls
    /\ lastResp = NoResp
    /\ response = NoResponse
    /\ clock = 0
    /\ seen = NotSeen
    /\ page = PageAtMount
    /\ chat = ChatAtMount
    /\ favs = FavoritesAtMount

\* what the two invocations at once leave alone
besideInvocations ==
    <<pc, req, loc, calls, lastResp, response, clock, seen, page, chat, favs>>

InvReceive(i) ==
    /\ inv[i].pc = "idle"
    /\ \E r \in ConcRequests(handler, i) :
        inv' = [inv EXCEPT ![i] = AfterReceive(handler, apiKey, r)]
    /\ UNCHANGED <<besideInvocations, handler, apiKey, task>>

InvCreate(i) ==
    /\ inv[i].pc = "create"
    /\ \E r \in CreateResponses(handler, task) :
        /\ inv' = [inv EXCEPT ![i] = AfterCreate(handler, inv[i], r)]
        /\ task' = TasksAfterCreate(handler, task, r)
    /\ UNCHANGED <<besideInvocations, handler, apiKey>>

InvLoopStep(i) ==
    /\ inv[i].pc = "loop"
    /\ inv[i].calls.poll < MaxConcPolls
    /\ inv' = [inv EXCEPT ![i] = AfterLoop(handler, inv[i])]
    /\ UNCHANGED <<besideInvocations, handler, apiKey, task>>

InvPoll(i) ==
    /\ inv[i].pc = "poll"
    /\ \E r \in PollResponses(handler, task, TaskIdRead(inv, i).s[1]) :
        inv' = [inv EXCEPT ![i] = AfterPoll(handler, inv[i], r)]
    /\ UNCHANGED <<besideInvocations, handler, apiKey, task>>

InvResume(i) ==
    /\ inv[i].pc = "resume"
    /\ \E r \in PollResponses(handler, task, TaskIdRead(inv, i).s[1]) :
        inv' = [inv EXCEPT ![i] = AfterResume(inv[i], r)]
    /\ UNCHANGED <<besideInvocations, handler, apiKey, task>>

ConcProviderAdvance ==
    /\ \E id \in TaskIds : \E n \in NextTaskStates(handler, task[id]) :
        task' = [task EXCEPT ![id] = n]
    /\ UNCHANGED <<besideInvocations, handler, apiKey, inv>>

ConcNext ==
    \/ \E i \in Invocations : InvReceive(i)
    \/ \E i \in Invocations : InvCreate(i)
    \/ \E i \in Invocations : InvLoopStep(i)
    \/ \E i \in Invocations : InvPoll(i)
    \/ \E i \in Invocations : InvResume(i)
    \/ ConcProviderAdvance

ConcSpec == ConcInit /\ [][ConcNext]_vars

\* the states invocation i reaches by one step when it runs alone with variables s,
\* the provider holding `tasks`: every answer is one about its own task
SoloSuccessors(h, key, tasks, s, i) ==
    CASE s.pc = "idle" -> {AfterReceive(h, key, r) : r \in ConcRequests(h, i)}
      [] s.pc = "create" -> {AfterCreate(h, s, r) : r \in CreateResponses(h, tasks)}
      [] s.pc = "loop" -> {AfterLoop(h, s)}
      [] s.pc = "poll" ->
            {AfterPoll(h, s, r) : r \in PollResponses(h, tasks, s.loc.taskId.s[1])}
      [] s.pc = "resume" ->
            {AfterResume(s, r) : r \in PollResponses(h, tasks, s.loc.taskId.s[1])}
      [] OTHER -> {}

\* C21: two invocations running at once for different task ids share no mutable
\* state: under every interleaving a step of one changes nothing of the other, and
\* takes the invocation where the same provider answer about its own task takes it
\* when it runs alone, so its calls and its response are those of the run alone.
C21_NoInterference ==
    [][\A i \in Invocations :
          inv'[i] # inv[i] =>
              /\ \A j \in Invocations \ {i} : inv'[j] = inv[j]
              /\ inv'[i] \in SoloSuccessors(handler, apiKey, task, inv[i], i)
              /\ \A j \in Invocations \ {i} :
                    Truthy(inv'[i].loc.taskId) => inv'[i].loc.taskId # inv'[j].loc.taskId]_vars

\* C21 witness: two blocking invocations interleaved their polls of different tasks
\* and returned different results
C21_Witness ==
    /\ handler = "MeshyBlocking"
    /\ inv[1].pc = "done"
    /\ inv[2].pc = "done"
    /\ inv[1].calls.poll = 2
    /\ inv[2].calls.poll = 1
    /\ inv[1].loc.taskId # inv[2].loc.taskId
    /\ inv[1].response.status = 200
    /\ inv[2].response.status = 500
    /\ StartsWith(inv[2].response.body.error.s, <<"Meshy task failed: ">>)

-----------------------------------------------------------------------------
(* The order of waits and polls *)

\* the time the blocking loop has run
Elapsed == clock - loc.startTime

\* C22: in the blocking loops every poll, the first one included, follows a wait
\* of a full pollingInterval that its own iteration made: an iteration starts only
\* at the loop test, only while the elapsed time is below pollingTimeout, and
\* waits pollingInterval before it polls; a poll is made only by an iteration that
\* has waited, and uses that wait up; no iteration starts at or after the budget.
C22_WaitThenPoll ==
    [][(handler \in BlockingHandlers) =>
       (  /\ (pc' = "poll" /\ pc # "poll") =>
                /\ pc = "loop"
                /\ Elapsed < pollingTimeout
                /\ clock' = clock + pollingInterval
                /\ calls' = calls
          /\ calls'.poll > calls.poll =>
                /\ pc = "poll"
                /\ pc' # "poll"
                /\ calls'.poll = calls.poll + 1
                /\ clock' = clock
                /\ Elapsed = calls'.poll * pollingInterval
          /\ (pc = "loop" /\ Elapsed >= pollingTimeout) => pc' \in {"loop", "done"})]_vars

\* C22 witness: the iteration that started at 117000 ms has waited and is about to
\* make the 40th poll, 120000 ms after the loop began
C22_Witness ==
    /\ handler \in BlockingHandlers
    /\ pc = "poll"
    /\ calls.poll = 39
    /\ Elapsed = pollingTimeout

\* r is a Tripo answer with code 0 and its data
Accepted(r) == r.kind = "json" /\ r.code = Num(0) /\ r.hasData

\* the calls before create-task: the handler comes to create-task from an upload
\* that returned code 0 with an image_token, from an object-storage put that
\* completed after the STS-token request returned code 0, or (resumable handler,
\* http(s) image_url) straight from the request; it asks for the STS token and
\* puts the object once, in that order; create-task is called from there only
OrderBeforeCreate ==
    /\ (pc' = "create" /\ pc # "create") =>
          \/ /\ pc = "upload"
             /\ calls'.upload = calls.upload + 1
             /\ Accepted(lastResp')
             /\ Truthy(lastResp'.image_token)
             /\ calls.sts = 0 /\ calls.s3put = 0
          \/ /\ pc = "s3put"
             /\ calls.sts = 1
             /\ calls'.s3put = calls.s3put + 1
             /\ Accepted(lastResp)
             /\ lastResp' = lastResp
             /\ calls.upload = 0
          \/ /\ pc = "idle"
             /\ handler = "TripoResumable"
             /\ isDirectUrl(req'.image_url)
    /\ (pc' = "s3put" /\ pc # "s3put") =>
          pc = "sts" /\ calls'.sts = calls.sts + 1 /\ Accepted(lastResp')
    /\ calls'.s3put > calls.s3put => pc = "s3put" /\ calls.sts = 1
    /\ calls'.create > calls.create => pc = "create" /\ calls.create = 0 /\ calls.poll = 0

\* a poll is of the task that create-task of this invocation returned with code 0
PollOfCreatedTask ==
    /\ pc = "poll"
    /\ calls.create = 1
    /\ Truthy(loc.taskId)
    /\ Lookup(task, loc.taskId.s[1]).status # "none"

\* the loop is entered from a create-task answer with code 0 and a task_id
LoopAfterCreate ==
    (pc' = "loop" /\ pc = "create") =>
        /\ Accepted(lastResp')
        /\ Truthy(lastResp'.task_id)
        /\ loc'.taskId = lastResp'.task_id

\* C24 as claimed: in the Tripo handlers create-task with a file token comes only
\* after an upload that returned code 0 with a non-empty image_token, create-task
\* with an object reference only after the STS-token request returned code 0 and
\* the put completed, and a poll only after create-task returned code 0 with a
\* non-empty task_id.
C24_ProtocolOrder ==
    [][(handler \in TripoHandlers) =>
       (  /\ OrderBeforeCreate
          /\ LoopAfterCreate
          /\ calls'.poll > calls.poll => PollOfCreatedTask)]_vars

\* C24, amended: the order before create-task as claimed; the blocking handler
\* polls only the task its own create-task returned with code 0; the resumable
\* handler never polls after a create-task, and polls once, without any earlier
\* call, the task id its request names, whatever that id is.
C24_ProtocolOrderOfSubmit ==
    [][(handler \in TripoHandlers) =>
       (  /\ OrderBeforeCreate
          /\ LoopAfterCreate
          /\ calls'.poll > calls.poll =>
                IF handler = "TripoBlocking" THEN PollOfCreatedTask
                ELSE /\ pc = "resume"
                     /\ calls = NoCalls
                     /\ Truthy(req.taskId)
                     /\ loc.taskId = req.taskId)]_vars

\* C24 witness: a resume request polled a task id the provider never handed out,
\* and the provider rejected the poll
C24_Witness ==
    /\ handler = "TripoResumable"
    /\ pc = "done"
    /\ calls = [NoCalls EXCEPT !.poll = 1]
    /\ Lookup(task, loc.taskId.s[1]).status = "none"
    /\ lastResp.code = Num(2001)

-----------------------------------------------------------------------------
(* Statuses outside the lists *)

\* status is neither the success status of the handler's provider nor one of its
\* listed failure statuses; a missing status is such a status
OtherStatus(h, status) ==
    /\ status # Str(<<SuccessStatus(h)>>)
    /\ ~(status.t = "string" /\ Len(status.s) = 1
            /\ status.s[1] \in (IF IsTripo(h) THEN TripoFailureStatuses
                                ELSE MeshyFailureStatuses))

\* the poll answers the provider can give now that carry data with such a status
OtherStatusAnswers ==
    {r \in PollResponses(handler, task, loc.taskId.s[1]) :
        CarriesData(handler, r) /\ OtherStatus(handler, r.status)}

\* C25: a poll answer whose status is neither success nor a listed failure
\* (missing status included) is taken as in progress: a blocking loop goes back to
\* its loop test without a response, and polls again while the budget lasts; the
\* Tripo resume handler answers 202 processing with no error.
C25_OtherStatusIsInProgress ==
    /\ (handler \in BlockingHandlers /\ pc = "poll") =>
          \A r \in OtherStatusAnswers : PollOutcome(handler, r).pc = "loop"
                                        /\ PollOutcome(handler, r).response = NoResponse
    /\ (handler \in BlockingHandlers /\ pc = "loop" /\ Elapsed < pollingTimeout) =>
          ENABLED (LoopStep /\ pc' = "poll")
    /\ (handler = "TripoResumable" /\ pc = "resume") =>
          \A r \in OtherStatusAnswers :
              LET out == ResumeOutcome(r, loc.taskId).response IN
              /\ out.status = 202
              /\ out.body.status = Str(<<"processing">>)
              /\ out.body.error = Undefined
    /\ (pc = "done" /\ calls.poll >= 1 /\ CarriesData(handler, lastResp)
            /\ OtherStatus(handler, lastResp.status)) =>
          /\ handler = "TripoResumable"
          /\ response.status = 202

\* C25 witness: the blocking Meshy loop is about to poll for the second time, the
\* task still in progress, so its first answer had a status outside the lists and
\* the coming one may have none, or one outside the lists
C25_Witness ==
    /\ handler = "MeshyBlocking"
    /\ pc = "poll"
    /\ calls.poll = 1
    /\ [BaseResp EXCEPT !.status = Undefined] \in OtherStatusAnswers
    /\ [BaseResp EXCEPT !.status = UnlistedStatus] \in OtherStatusAnswers

-----------------------------------------------------------------------------
(* Trace ids *)

\* the last provider call the invocation made
DecidingStep ==
    IF calls.poll > 0 THEN "poll"
    ELSE IF calls.create > 0 THEN "create"
    ELSE IF calls.sts > 0 THEN "sts"
    ELSE "upload"

\* a response with a traceId field has it from the provider response read last:
\* the header of that response, and so of the last call made, not of a call
\* before it
TraceOfDecidingResponse ==
    response.body.traceId # Undefined =>
        /\ lastResp.kind = "json"
        /\ Truthy(response.body.traceId) =>
              /\ response.body.traceId = lastResp.traceId
              /\ response.body.traceId = Str(<<"trace-", DecidingStep>>)
        /\ ~Truthy(response.body.traceId) => lastResp.traceId = Null

\* C26 as claimed: the traceId of a Tripo handler response is the X-Tripo-Trace-ID
\* header of the provider response that decided the outcome, never that of an
\* earlier step, and a response to a provider rejection whose header is absent
\* carries the empty string as traceId.
C26_TraceIdOfDecidingResponse ==
    (handler \in TripoHandlers /\ pc = "done") =>
        /\ TraceOfDecidingResponse
        /\ IsRejection(handler, lastResp) =>
              response.body.traceId = OrElse(lastResp.traceId, Str(<<>>))

\* C26, amended: as claimed, but the empty string for an absent header is what the
\* resumable handler answers; the blocking handler answers a rejection whose
\* header is absent with traceId null.
C26_TraceIdPerHandler ==
    (handler \in TripoHandlers /\ pc = "done") =>
        /\ TraceOfDecidingResponse
        /\ IsRejection(handler, lastResp) =>
              response.body.traceId =
                  IF handler = "TripoResumable" THEN OrElse(lastResp.traceId, Str(<<>>))
                  ELSE lastResp.traceId

\* C26 witness: the blocking handler's upload was accepted, create-task was
\* rejected without the header, and the answer carries traceId null
C26_Witness ==
    /\ handler = "TripoBlocking"
    /\ pc = "done"
    /\ calls.upload = 1
    /\ calls.create = 1
    /\ IsRejection(handler, lastResp)
    /\ lastResp.traceId = Null
    /\ response.body.traceId = Null

-----------------------------------------------------------------------------
(* The page: avatar generation (page.tsx)                                    *)

\* the relay and the provider while only the page is looked at
RelayAtRest ==
    /\ handler = "MeshyBlocking"
    /\ apiKey = Str(<<"key">>)
    /\ task = [id \in TaskIds |-> NoTask]
    /\ pc = "idle"
    /\ req = NoRequest
    /\ loc = NoLocals
    /\ calls = NoCalls
    /\ lastResp = NoResp
    /\ response = NoResponse
    /\ clock = 0
    /\ seen = NotSeen
    /\ inv = [i \in Invocations |-> IdleInvocation]

relayVars ==
    <<handler, apiKey, task, pc, req, loc, calls, lastResp, response, clock, seen, inv>>

\* the model URLs a relay answers with
AvatarUrls == {ModelUrl, Str(<<"https", ":", "//", "x", "/", "n.glb">>)}

\* what await fetch('/api/meshy-3d', ...) gives the page: a rejection, or a
\* response of a relay handler: success with a model URL, 202 processing with the
\* task id, the timeout of a blocking loop, the rejection of the input
RelayAnswers ==
    {[kind |-> "throw", response |-> NoResponse]}
    \cup {[kind |-> "json", response |-> x] :
            x \in {MeshySuccess([BaseResp EXCEPT !.model = u]) : u \in AvatarUrls}
                \cup {ResumeOutcome([BaseResp EXCEPT !.status = Str(<<"running">>)],
                                    Str(<<TaskNames[1]>>)).response,
                      TimedOut("MeshyBlocking"),
                      ErrorJson(<<"Invalid image data provided.">>, 400)}}

\* Response.ok
Ok(resp) == resp.status >= 200 /\ resp.status <= 299

\* the generation has a request, or the file read before it, outstanding
InFlight(g) == page.gen[g].pc \in {"reading", "fetching"}

Finished(fn, ans) == [pc |-> "finished", by |-> fn, answer |-> ans]

\* the catch and finally blocks of generateAvatarWithMeshy
catchAvatar(p, g, ans) ==
    [p EXCEPT !.meshyError = Str(<<"Error generating 3D model: ">>),
              !.avatarModelUrl = Null,
              !.modelUrl = Null,
              !.meshyLoading = FALSE,
              !.gen[g] = Finished("generateAvatarWithMeshy", ans)]

\* generateAvatarWithMeshy from the answer of the relay on
AfterAvatarAnswer(p, g, ans) ==
    IF ans.kind = "throw" \/ ~Ok(ans.response) THEN catchAvatar(p, g, ans)
    ELSE LET modelUrl == OrElse(ans.response.body.modelUrl, Null) IN
         [p EXCEPT !.sessionItem = IF Truthy(modelUrl) THEN modelUrl ELSE @,
                   !.avatarModelUrl = modelUrl,
                   !.modelUrl = modelUrl,
                   !.meshyLoading = FALSE,
                   !.gen[g] = Finished("generateAvatarWithMeshy", ans)]

\* handleGenerate3D from the answer of the relay on
AfterGenerate3DAnswer(p, g, ans) ==
    IF ans.kind = "throw" \/ ~Ok(ans.response)
    THEN [p EXCEPT !.meshyError = Str(<<"Failed to generate 3D model.">>),
                   !.meshyLoading = FALSE,
                   !.gen[g] = Finished("handleGenerate3D", ans)]
    ELSE [p EXCEPT !.modelUrl = OrElse(ans.response.body.modelUrl, Null),
                   !.meshyLoading = FALSE,
                   !.gen[g] = Finished("handleGenerate3D", ans)]

GenInit ==
    /\ RelayAtRest
    /\ page = PageAtMount
    /\ chat = ChatAtMount
    /\ favs = FavoritesAtMount

\* a file is chosen: the preview reader starts, and generateAvatarWithMeshy runs
\* up to its first await
handleImageChange(g) ==
    /\ ~InFlight(g)
    /\ page' = [page EXCEPT !.preview = TRUE,
                            !.avatarModelUrl = Null,
                            !.meshyLoading = TRUE,
                            !.meshyError = Null,
                            !.gen[g] = [pc |-> "reading", by |-> "generateAvatarWithMeshy",
                                        answer |-> NoAnswer]]
    /\ UNCHANGED <<relayVars, chat, favs>>

\* reader.onload of handleImageChange
PreviewLoaded ==
    /\ page.preview
    /\ page' = [page EXCEPT !.image = Str(ValidDataUrl), !.preview = FALSE]
    /\ UNCHANGED <<relayVars, chat, favs>>

\* the FileReader of generateAvatarWithMeshy resolves, and the request is sent, or
\* rejects
FileRead(g) ==
    /\ page.gen[g].pc = "reading"
    /\ \/ page' = [page EXCEPT !.gen[g].pc = "fetching"]
       \/ page' = catchAvatar(page, g, NoAnswer)
    /\ UNCHANGED <<relayVars, chat, favs>>

AvatarAnswered(g) ==
    /\ page.gen[g].pc = "fetching"
    /\ page.gen[g].by = "generateAvatarWithMeshy"
    /\ \E ans \in RelayAnswers : page' = AfterAvatarAnswer(page, g, ans)
    /\ UNCHANGED <<relayVars, chat, favs>>

\* the button is disabled while meshyLoading
handleGenerate3D(g) ==
    /\ ~page.meshyLoading
    /\ Truthy(page.image)
    /\ ~InFlight(g)
    /\ page' = [page EXCEPT !.meshyLoading = TRUE,
                            !.meshyError = Null,
                            !.modelUrl = Null,
                            !.gen[g] = [pc |-> "fetching", by |-> "handleGenerate3D",
                                        answer |-> NoAnswer]]
    /\ UNCHANGED <<relayVars, chat, favs>>

Generate3DAnswered(g) ==
    /\ page.gen[g].pc = "fetching"
    /\ page.gen[g].by = "handleGenerate3D"
    /\ \E ans \in RelayAnswers : page' = AfterGenerate3DAnswer(page, g, ans)
    /\ UNCHANGED <<relayVars, chat, favs>>

clearAvatar ==
    /\ page' = [page EXCEPT !.sessionItem = Null, !.avatarModelUrl = Null,
                            !.modelUrl = Null]
    /\ UNCHANGED <<relayVars, chat, favs>>

\* the page is loaded again in the same tab: the state starts over, what was in
\* flight is gone, sessionStorage stays, and the mount effect restores the avatar
Reload ==
    /\ page' = LET savedModelUrl == page.sessionItem IN
               IF Truthy(savedModelUrl)
               THEN [PageAtMount EXCEPT !.sessionItem = savedModelUrl,
                                        !.avatarModelUrl = savedModelUrl,
                                        !.modelUrl = savedModelUrl]
               ELSE [PageAtMount EXCEPT !.sessionItem = savedModelUrl]
    /\ UNCHANGED <<relayVars, chat, favs>>

GenNext ==
    \/ \E g \in Gens : handleImageChange(g)
    \/ PreviewLoaded
    \/ \E g \in Gens : FileRead(g)
    \/ \E g \in Gens : AvatarAnswered(g)
    \/ \E g \in Gens : handleGenerate3D(g)
    \/ \E g \in Gens : Generate3DAnswered(g)
    \/ clearAvatar
    \/ Reload

GenSpec == GenInit /\ [][GenNext]_vars

\* the relay answered 'processing' with a task id
IsProcessing(ans) ==
    /\ ans.kind = "json"
    /\ ans.response.body.status = Str(<<"processing">>)
    /\ Truthy(ans.response.body.taskId)

\* C23: the page does not take a 'processing' answer with a task id as the end of
\* a generation: a generation whose answer was 'processing' is not finished (it
\* stays in flight, resuming with the task id, until a terminal answer).
C23_ProcessingIsNotFinished ==
    \A g \in Gens : page.gen[g].pc = "finished" => ~IsProcessing(page.gen[g].answer)

NoneInFlight == \A g \in Gens : ~InFlight(g)

\* C27: whenever no generation is in flight, avatarModelUrl and the sessionStorage
\* entry 'avatarModelUrl' agree: both absent, or the same URL.
C27_CacheAgreesWithDisplay ==
    NoneInFlight => page.avatarModelUrl = page.sessionItem

\* C28: meshyLoading is true whenever a generation started by
\* generateAvatarWithMeshy or handleGenerate3D is in flight.
C28_LoadingWhileInFlight ==
    (\E g \in Gens : InFlight(g)) => page.meshyLoading

-----------------------------------------------------------------------------
(* The page: chat (page.tsx)                                                 *)

\* what the user types into the textarea
ChatTexts == {<<>>, <<" ">>, <<"hi">>, <<"more">>}

\* setChatHistory(prev => { updated[updated.length - 1] = { sender: "bot", message: reply } })
\* by send s: the entry stays the one that was appended there, its content is replaced
WriteReply(history, s, reply) ==
    [history EXCEPT ![Len(history)] =
        [@ EXCEPT !.sender = "bot", !.message = reply, !.writer = s]]

\* the catch and finally blocks of handleSendChat
catchSend(c, s) ==
    [c EXCEPT !.chatError = Str(<<"Failed to get reply from AI. Please try again.">>),
              !.chatHistory = Append(@, Entry0("bot", <<"[Error: No reply from AI]">>, s)),
              !.chatLoading = FALSE,
              !.send[s].pc = "done"]

\* what await fetch('/api/chat') leads to: a streamed body, a JSON body with a
\* reply or without one, a status that is not ok, a rejection
ChatAnswers == {"stream", "reply", "no-reply", "not-ok", "throw"}

\* what await reader.read() gives
ReadResults == {"chunk", "done", "error"}

ChatInit ==
    /\ RelayAtRest
    /\ page = PageAtMount
    /\ chat = ChatAtMount
    /\ favs = FavoritesAtMount

\* onChange of the textarea
TypeInput ==
    /\ \E text \in ChatTexts \ {chat.chatInput} :
          chat' = [chat EXCEPT !.chatInput = text]
    /\ UNCHANGED <<relayVars, page, favs>>

\* handleSendChat up to await fetch; the sends are numbered in the order they start
handleSendChat(s) ==
    /\ Trim(chat.chatInput) # <<>>
    /\ chat.send[s].pc = "idle"
    /\ \A r \in Sends : r < s => chat.send[r].pc # "idle"
    /\ chat' = [chat EXCEPT
                  !.chatHistory = Append(Append(@, Entry0("user", chat.chatInput, s)),
                                         Entry0("bot", <<>>, s)),
                  !.chatLoading = TRUE,
                  !.chatError = Null,
                  !.chatInput = <<>>,
                  !.send[s] = [pc |-> "fetching", reply |-> <<>>, chunks |-> 0]]
    /\ UNCHANGED <<relayVars, page, favs>>

\* onKeyDown: Enter without Shift
PressEnter == \E s \in Sends : handleSendChat(s)

\* the Send button, disabled while chatLoading
ClickSend == ~chat.chatLoading /\ \E s \in Sends : handleSendChat(s)

\* fetch has answered
ChatFetchAnswered(s) ==
    /\ chat.send[s].pc = "fetching"
    /\ \E a \in ChatAnswers :
        chat' =
          CASE a = "stream" -> [chat EXCEPT !.send[s].pc = "streaming"]
            [] a = "reply" ->
                 [chat EXCEPT !.chatHistory = WriteReply(@, s, <<"reply">>),
                              !.chatLoading = FALSE,
                              !.send[s] = [@ EXCEPT !.pc = "done", !.reply = <<"reply">>]]
            [] a = "no-reply" ->
                 [chat EXCEPT !.chatHistory = WriteReply(@, s, <<"[No reply from AI]">>),
                              !.chatLoading = FALSE,
                              !.send[s] = [@ EXCEPT !.pc = "done",
                                                    !.reply = <<"[No reply from AI]">>]]
            [] OTHER -> catchSend(chat, s)
    /\ UNCHANGED <<relayVars, page, favs>>

\* one turn of the streaming loop
StreamRead(s) ==
    /\ chat.send[s].pc = "streaming"
    /\ \E x \in ReadResults :
        /\ x = "chunk" => chat.send[s].chunks < MaxChunks
        /\ chat' =
             CASE x = "chunk" ->
                    LET reply == Append(chat.send[s].reply, "chunk") IN
                    [chat EXCEPT !.chatHistory = WriteReply(@, s, reply),
                                 !.send[s] = [@ EXCEPT !.reply = reply,
                                                       !.chunks = @ + 1]]
               [] x = "done" -> [chat EXCEPT !.chatLoading = FALSE, !.send[s].pc = "done"]
               [] OTHER -> catchSend(chat, s)
    /\ UNCHANGED <<relayVars, page, favs>>

ChatNext ==
    \/ TypeInput
    \/ PressEnter
    \/ ClickSend
    \/ \E s \in Sends : ChatFetchAnswered(s)
    \/ \E s \in Sends : StreamRead(s)

ChatSpec == ChatInit /\ [][ChatNext]_vars

\* C29: the reply of a send is written only into the bot placeholder that the same
\* handleSendChat call appended: every entry of chatHistory has its message from
\* the send that appended it, and a user entry still has the text that was sent.
C29_ReplyInOwnPlaceholder ==
    \A k \in DOMAIN chat.chatHistory :
        LET e == chat.chatHistory[k] IN
        /\ e.writer = e.by
        /\ e.sender = "user" => e.message \in ChatTexts

-----------------------------------------------------------------------------
(* The page: favorites (page.tsx, useFavorites)                              *)

\* the ids of the products of the catalog
ProductIds == {"a", "b"}

\* JSON.stringify of a list of products, and JSON.parse of the text
JSONstringify(list) == [json |-> list]

JSONparse(text) == text.json

\* what localStorage 'favorites' holds when the page is opened
StoredAtOpen == {Null, JSONstringify(<<>>), JSONstringify(<<"a">>)}

\* favorites.filter(f => f.id !== id)
Without(list, id) == SelectSeq(list, LAMBDA f : f # id)

\* isFavorite(id), of the render whose favorites is list
isFavorite(list, id) == \E k \in DOMAIN list : list[k] = id

\* addFavorite(item), called in the render whose favorites is f.rendered
addFavorite(f, item) ==
    LET updated == Append(f.rendered, item) IN
    [f EXCEPT !.favorites = updated,
              !.localStorage = JSONstringify(updated),
              !.applied = Append(@, item),
              !.calls = @ + 1]

\* removeFavorite(id), called in the render whose favorites is f.rendered
removeFavorite(f, id) ==
    LET updated == Without(f.rendered, id) IN
    [f EXCEPT !.favorites = updated,
              !.localStorage = JSONstringify(updated),
              !.applied = Without(@, id),
              !.calls = @ + 1]

FavInit ==
    /\ RelayAtRest
    /\ page = PageAtMount
    /\ chat = ChatAtMount
    /\ favs \in {[FavoritesAtMount EXCEPT
                    !.localStorage = st,
                    !.applied = IF st = Null THEN <<>> ELSE JSONparse(st)] :
                 st \in StoredAtOpen}

\* the mount effect: load the stored list
MountEffect ==
    /\ ~favs.mounted
    /\ favs' = [favs EXCEPT !.mounted = TRUE,
                            !.favorites = IF favs.localStorage # Null
                                          THEN JSONparse(favs.localStorage) ELSE @]
    /\ UNCHANGED <<relayVars, page, chat>>

\* the component renders again: its callbacks close over the current state
Render ==
    /\ favs.rendered # favs.favorites
    /\ favs' = [favs EXCEPT !.rendered = favs.favorites]
    /\ UNCHANGED <<relayVars, page, chat>>

\* the favorite button of a product card or of the product dialog
ToggleFavorite(id) ==
    /\ favs.calls < MaxFavoriteCalls
    /\ favs' = IF isFavorite(favs.rendered, id) THEN removeFavorite(favs, id)
               ELSE addFavorite(favs, id)
    /\ UNCHANGED <<relayVars, page, chat>>

\* the Remove button of an entry of the favorites list
RemoveFromList(id) ==
    /\ favs.calls < MaxFavoriteCalls
    /\ isFavorite(favs.rendered, id)
    /\ favs' = removeFavorite(favs, id)
    /\ UNCHANGED <<relayVars, page, chat>>

FavNext ==
    \/ MountEffect
    \/ Render
    \/ \E id \in ProductIds : ToggleFavorite(id)
    \/ \E id \in ProductIds : RemoveFromList(id)

FavSpec == FavInit /\ [][FavNext]_vars

\* C30: after any sequence of addFavorite and removeFavorite calls, several before
\* a re-render included, localStorage 'favorites' holds the initial list with every
\* call applied in order, and it holds the in-memory favorites list.
C30_PersistedIsEveryCall ==
    favs.calls > 0 =>
        /\ favs.localStorage = JSONstringify(favs.applied)
        /\ favs.localStorage = JSONstringify(favs.favorites)

=============================================================================
